---- MODULE Spec2Model ----
(***************************************************************************)
(* A model of the Azure storage driver of khiopsdriver-azure               *)
(* (src/src/azureplugin.cpp): a set of blobs selected by a glob pattern is *)
(* served as one seekable logical file.  The model covers the blob store,  *)
(* header detection, index construction, the reader registry and the       *)
(* seek / read / size entry points.                                        *)
(***************************************************************************)
EXTENDS Integers, Sequences, FiniteSets, TLC

(***************************************************************************)
(* Bounds of the model.                                                    *)
(***************************************************************************)
\* Modelled width, in bits, of tOffset / long long (64 in the build).
OffsetBits == 5
\* Largest raw size of one blob.
MaxPartLen == 3
\* Longest first line (newline included) of the first blob.
MaxHeaderLen == 2
\* Modelled size of the block FindHeader downloads at a time (10 MiB in the build).
BlockSize == 2
\* Largest unit size passed to read.
MaxUnit == 2

(***************************************************************************)
(* Program constants.                                                      *)
(***************************************************************************)
max_val == 2 ^ (OffsetBits - 1) - 1
min_val == 0 - 2 ^ (OffsetBits - 1)
kBadSize == -1
kSuccess == 1
kFailure == 0
kTrue == 1
kFalse == 0
kCloseSuccess == 0
kCloseEOF == -1
nullptr == 0
NL == 10

Int64 == min_val .. max_val

\* The value a signed addition leaves in a tOffset: x modulo 2^OffsetBits.
Wrap64(x) == ((x - min_val) % (2 ^ OffsetBits)) + min_val

Min(a, b) == IF a < b THEN a ELSE b

RECURSIVE SumLen(_)
SumLen(ss) == IF ss = <<>> THEN 0 ELSE Len(Head(ss)) + SumLen(Tail(ss))

RECURSIVE Concat(_)
Concat(ss) == IF ss = <<>> THEN <<>> ELSE Head(ss) \o Concat(Tail(ss))

\* The first n elements of s (all of s when it is shorter).
Take(s, n) == SubSeq(s, 1, Min(n, Len(s)))

\* s without its first n elements.
Drop(s, n) == SubSeq(s, n + 1, Len(s))

VARIABLES
    bIsConnected,           \* int bIsConnected
    blobs,                  \* the container: blobs in listing order
    active_reader_handles,  \* StreamVec<Reader> active_reader_handles
    active_writer_handles,  \* StreamVec<Writer> active_writer_handles
    lastError,              \* std::string lastError
    last,                   \* the last call of the driver: its arguments and what it returned
    stale,                  \* for every address, whether the host holds a closed handle of it
    threads                 \* the call each thread of the host is in, and where in it

vars ==
    <<bIsConnected, blobs, active_reader_handles, active_writer_handles, lastError, last,
      stale, threads>>

\* What the host keeps on its side of the interface.
host == <<stale, threads>>

(***************************************************************************)
(* The container.  A blob is [name, bytes, deleted]; a name or a pattern   *)
(* is a sequence of characters, a byte an integer.  The first blob starts  *)
(* with a line of L bytes (L = 0: it holds no newline at all); every other *)
(* blob starts with the same line ("same") or with a line that differs     *)
(* from it at its last byte ("diff"), cut to the blob's length.            *)
(***************************************************************************)
\* The names of the container's blobs, in listing order.
Names == << <<"a", "0">>, <<"a", "1">>, <<"b", "2">> >>

\* The first line of the first blob: L - 1 letters and the newline.
HeaderLine(L) == [k \in 1 .. L |-> IF k = L THEN NL ELSE 96 + k]

\* A data byte: distinct for every blob i and position j, never a newline.
DataByte(i, j) == 32 + 16 * i + j

PartBytes(i, L, kind, len) ==
    [j \in 1 .. len |->
        IF j < L \/ (j = L /\ kind = "same") THEN HeaderLine(L)[j] ELSE DataByte(i, j)]

Kinds(L) == IF L = 0 THEN {"same"} ELSE {"same", "diff"}

PartSpecs(L) == [len : 0 .. MaxPartLen, kind : Kinds(L)]

MkStore(L, len0, rest) ==
    [i \in 1 .. Len(Names) |->
        [name |-> Names[i],
         bytes |-> IF i = 1 THEN PartBytes(1, L, "same", len0)
                   ELSE PartBytes(i, L, rest[i - 1].kind, rest[i - 1].len),
         deleted |-> FALSE]]

Stores ==
    UNION { { MkStore(L, len0, rest) :
                len0 \in L .. MaxPartLen,
                rest \in [1 .. (Len(Names) - 1) -> PartSpecs(L)] } :
            L \in 0 .. MaxHeaderLen }

\* The index in the listing of the blob called name, 0 when there is none.
BlobIndex(bs, name) ==
    IF \E i \in 1 .. Len(bs) : bs[i].name = name
    THEN CHOOSE i \in 1 .. Len(bs) : bs[i].name = name
    ELSE 0

BlobBytes(bs, name) == bs[BlobIndex(bs, name)].bytes

(***************************************************************************)
(* The transport.  A range download returns the bytes of the range that    *)
(* exist, fewer than asked at the end of the blob; any request may fail,   *)
(* which the caller of a handler chooses (failAt: the ordinal, within the  *)
(* call, of the request that throws; 0 when none does).  A range that      *)
(* starts at or past the end of the blob, or of length 0, delivers nothing *)
(* when it does not throw.                                                 *)
(***************************************************************************)
DownloadRange(bytes, start, length) ==
    IF start < 0 \/ length <= 0 \/ start >= Len(bytes) THEN <<>>
    ELSE SubSeq(bytes, start + 1, Min(start + length, Len(bytes)))

\* size_t ReadPart(blob_client, dest, offset): fills dest from its start, returns the
\* bytes received; the rest of dest keeps what it held.
ReadPart(bytes, dest, offset) ==
    LET dl == DownloadRange(bytes, offset, Len(dest))
    IN  [dest |-> dl \o Drop(dest, Len(dl)), read |-> Len(dl)]

\* The position of the first newline of s, 0 when it holds none.
FirstNewline(s) ==
    IF \E k \in 1 .. Len(s) : s[k] = NL
    THEN CHOOSE k \in 1 .. Len(s) : s[k] = NL /\ \A m \in 1 .. (k - 1) : s[m] # NL
    ELSE 0

\* FindHeader: reads the blob block by block until a newline is found in the new
\* block or the blob is exhausted.  [found, header, nreq: block downloads issued].
RECURSIVE FindHeaderFrom(_, _, _, _)
FindHeaderFrom(bytes, bytes_read, header, nreq) ==
    LET dl == DownloadRange(bytes, bytes_read, BlockSize)
        pos == FirstNewline(dl)
    IN  IF pos > 0
        THEN [found |-> TRUE, header |-> header \o Take(dl, pos), nreq |-> nreq + 1]
        ELSE IF bytes_read + Len(dl) = Len(bytes)
        THEN [found |-> FALSE, header |-> <<>>, nreq |-> nreq + 1]
        ELSE FindHeaderFrom(bytes, bytes_read + Len(dl), header \o dl, nreq + 1)

\* FindHeader taking the whole of a blob without a newline for its first line.
FindHeaderWholeBlob(bytes) ==
    LET r == FindHeaderFrom(bytes, 0, <<>>, 0)
    IN  IF r.found THEN r ELSE [found |-> TRUE, header |-> bytes, nreq |-> r.nreq]

FindHeader(bytes) == FindHeaderFrom(bytes, 0, <<>>, 0)

\* IsSameHeader: downloads the first header.size() bytes of the blob into the
\* shared part_buffer and compares the buffer with the header.
IsSameHeader(bytes, header, part_buffer) ==
    LET r == ReadPart(bytes, part_buffer, 0)
    IN  [same |-> r.dest = header, part_buffer |-> r.dest]

(***************************************************************************)
(* Locators and patterns.                                                  *)
(***************************************************************************)
special_chars == {"*", "?", "!", "[", "^"}

\* std::string::find_first_of(special_chars, from): the least 0-based position
\* >= from holding a special character, Len(pattern) when there is none.
FindFirstOf(pattern, from) ==
    IF \E k \in from .. (Len(pattern) - 1) : pattern[k + 1] \in special_chars
    THEN CHOOSE k \in from .. (Len(pattern) - 1) :
            /\ pattern[k + 1] \in special_chars
            /\ \A m \in from .. (k - 1) : pattern[m + 1] \notin special_chars
    ELSE Len(pattern)

\* FindPatternSpecialChar: [has, pos], pos the 0-based position of the first
\* special character that no backslash precedes.
RECURSIVE FindSpecialFrom(_, _)
FindSpecialFrom(pattern, from_offset) ==
    LET found_at == FindFirstOf(pattern, from_offset)
    IN  IF found_at = Len(pattern) THEN [has |-> FALSE, pos |-> 0]
        ELSE IF found_at > 0 /\ pattern[found_at] = "\\"
        THEN FindSpecialFrom(pattern, found_at + 1)
        ELSE [has |-> TRUE, pos |-> found_at]

\* FindPatternSpecialChar without the test of the preceding backslash.
FindPatternSpecialCharAnyChar(pattern) ==
    LET found_at == FindFirstOf(pattern, 0)
    IN  IF found_at = Len(pattern) THEN [has |-> FALSE, pos |-> 0]
        ELSE [has |-> TRUE, pos |-> found_at]

FindPatternSpecialChar(pattern) == FindSpecialFrom(pattern, 0)

\* options.Prefix = pattern.substr(0, pattern_1st_sp_char_pos): the prefix FilterList
\* asks the listing for.
ListBlobsPrefix(pattern, pattern_1st_sp_char_pos) == Take(pattern, pattern_1st_sp_char_pos)

\* The glob matcher (utils::gitignore_glob_match), for the patterns the model uses:
\* literals, backslash escapes, '?' and '*'.
RECURSIVE GlobMatch(_, _)
GlobMatch(name, pattern) ==
    IF pattern = <<>> THEN name = <<>>
    ELSE IF Head(pattern) = "\\" /\ Len(pattern) >= 2
    THEN name # <<>> /\ Head(name) = pattern[2] /\ GlobMatch(Tail(name), Drop(pattern, 2))
    ELSE IF Head(pattern) = "*"
    THEN GlobMatch(name, Tail(pattern)) \/ (name # <<>> /\ GlobMatch(Tail(name), pattern))
    ELSE IF Head(pattern) = "?"
    THEN name # <<>> /\ GlobMatch(Tail(name), Tail(pattern))
    ELSE name # <<>> /\ Head(name) = Head(pattern) /\ GlobMatch(Tail(name), Tail(pattern))

HasPrefix(name, prefix) == Len(name) >= Len(prefix) /\ Take(name, Len(prefix)) = prefix

\* FilterList: the listed blobs under the pattern's literal prefix that are not
\* deleted and match the pattern, in listing order; NotFound when there is none.
\* FilterList reporting an empty result as a failure of the listing request.
FilterListNoReason(bs, pattern, pattern_1st_sp_char_pos) ==
    LET prefix == Take(pattern, pattern_1st_sp_char_pos)
        res == SelectSeq(bs, LAMBDA item :
                   HasPrefix(item.name, prefix) /\ ~item.deleted
                   /\ GlobMatch(item.name, pattern))
    IN  IF res = <<>>
        THEN [ok |-> FALSE, reason |-> "transport", value |-> <<>>]
        ELSE [ok |-> TRUE, reason |-> "", value |-> res]

FilterList(bs, pattern, pattern_1st_sp_char_pos) ==
    LET prefix == Take(pattern, pattern_1st_sp_char_pos)
        res == SelectSeq(bs, LAMBDA item :
                   HasPrefix(item.name, prefix) /\ ~item.deleted
                   /\ GlobMatch(item.name, pattern))
    IN  IF res = <<>>
        THEN [ok |-> FALSE, reason |-> "No blob matching pattern in container.", value |-> <<>>]
        ELSE [ok |-> TRUE, reason |-> "", value |-> res]

(***************************************************************************)
(* Index construction.                                                     *)
(***************************************************************************)
\* CompareHeaders without the test of same_headers: every blob is downloaded and
\* compared, whatever the earlier ones gave.
RECURSIVE CompareHeadersEvery(_, _, _, _, _, _)
CompareHeadersEvery(blobs_list, i, header, same_headers, part_buffer, nreq) ==
    IF i > Len(blobs_list) THEN [same |-> same_headers, nreq |-> nreq]
    ELSE LET r == IsSameHeader(blobs_list[i].bytes, header, part_buffer)
         IN  CompareHeadersEvery(blobs_list, i + 1, header, same_headers /\ r.same,
                                 r.part_buffer, nreq + 1)

\* The loop over the blobs after the first: while same_headers holds, each blob's
\* first bytes are downloaded and compared.  [same, nreq: downloads issued].
RECURSIVE CompareHeaders(_, _, _, _, _, _)
CompareHeaders(blobs_list, i, header, same_headers, part_buffer, nreq) ==
    IF i > Len(blobs_list) THEN [same |-> same_headers, nreq |-> nreq]
    ELSE IF same_headers
    THEN LET r == IsSameHeader(blobs_list[i].bytes, header, part_buffer)
         IN  CompareHeaders(blobs_list, i + 1, header, r.same, r.part_buffer, nreq + 1)
    ELSE CompareHeaders(blobs_list, i + 1, header, FALSE, part_buffer, nreq)

\* std::vector<uint8_t> part_buffer(header_size): zero-filled.
ZeroBuffer(n) == [k \in 1 .. n |-> 0]

\* cumulativeSize.push_back(cumulativeSize.back() + BlobSize), from the first blob on.
RawCumulativeSize(blobs_list) ==
    [i \in 1 .. Len(blobs_list) |-> SumLen([k \in 1 .. i |-> blobs_list[k].bytes])]

\* ElideHeaders taking one header off every cumulative size after the first, instead
\* of one for each part before it.
ElideHeadersOnce(cumulativeSize, same_headers, header_size) ==
    IF same_headers
    THEN [i \in 1 .. Len(cumulativeSize) |->
            IF i = 1 THEN cumulativeSize[i] ELSE cumulativeSize[i] - header_size]
    ELSE cumulativeSize

\* ElideHeaders leaving the header of every part in the sizes.
ElideHeadersNever(cumulativeSize, same_headers, header_size) == cumulativeSize

\* if (same_headers) cumulativeSize[i] -= i * header_size, for every i >= 1 (0-based).
ElideHeaders(cumulativeSize, same_headers, header_size) ==
    IF same_headers
    THEN [i \in 1 .. Len(cumulativeSize) |-> cumulativeSize[i] - (i - 1) * header_size]
    ELSE cumulativeSize

\* The Reader a successful open builds: the cursor at 0 and the total size the last
\* cumulative size.
Reader(offset, commonHeaderLength, filenames, cumulativeSize) ==
    [filenames |-> filenames, cumulativeSize |-> cumulativeSize,
     commonHeaderLength |-> commonHeaderLength, offset |-> offset,
     total_size |-> cumulativeSize[Len(cumulativeSize)]]

\* make_simple_reader with the size taken for a position of the last byte.
make_simple_reader_last_byte(filename, blob_size) ==
    Reader(0, 0, <<filename>>, <<blob_size - 1>>)

make_simple_reader(filename, blob_size) == Reader(0, 0, <<filename>>, <<blob_size>>)

Failure(reason) == [ok |-> FALSE, reason |-> reason, value |-> <<>>]

Success(value) == [ok |-> TRUE, reason |-> "", value |-> value]

\* A result with the number of requests the call made of the service.
Issued(nreq, result) == [nreq |-> nreq] @@ result

\* MakeReaderPtr: [ok, reason, value: the Reader, nreq].  Request 1 is GetProperties
\* or the listing, the next ones FindHeader's blocks, then the header comparisons.
MakeReaderPtr(bs, object, failAt) ==
    LET sp == FindPatternSpecialChar(object)
    IN  IF ~sp.has
        THEN IF failAt = 1 THEN Issued(1, Failure("transport"))
             ELSE IF BlobIndex(bs, object) = 0 THEN Issued(1, Failure("NotFound"))
             ELSE Issued(1, Success(make_simple_reader(object, Len(BlobBytes(bs, object)))))
        ELSE LET filter_res == FilterList(bs, object, sp.pos)
                 blobs_list == filter_res.value
             IN  IF failAt = 1 THEN Issued(1, Failure("transport"))
                 ELSE IF ~filter_res.ok THEN Issued(1, Failure(filter_res.reason))
                 ELSE IF Len(blobs_list) = 1
                 THEN Issued(1, Success(make_simple_reader(blobs_list[1].name,
                                                           Len(blobs_list[1].bytes))))
                 ELSE LET maybe_header == FindHeader(blobs_list[1].bytes)
                          header == maybe_header.header
                          cmp == CompareHeaders(blobs_list, 2, header, TRUE,
                                                ZeroBuffer(Len(header)), 0)
                      IN  IF failAt \in 2 .. (1 + maybe_header.nreq)
                          THEN Issued(failAt, Failure("transport"))
                          ELSE IF ~maybe_header.found
                          THEN Issued(1 + maybe_header.nreq,
                                      Failure("Error while reading header of first file."))
                          ELSE IF failAt \in (2 + maybe_header.nreq)
                                             .. (1 + maybe_header.nreq + cmp.nreq)
                          THEN Issued(failAt, Failure("transport"))
                          ELSE Issued(1 + maybe_header.nreq + cmp.nreq,
                                   Success(Reader(0, Len(header),
                                     [i \in 1 .. Len(blobs_list) |-> blobs_list[i].name],
                                     ElideHeaders(RawCumulativeSize(blobs_list), cmp.same,
                                                  Len(header)))))

\* GetFileSize: [ok, reason, value: the size, nreq], with the same requests as
\* MakeReaderPtr.
GetFileSize(bs, object, failAt) ==
    LET sp == FindPatternSpecialChar(object)
    IN  IF ~sp.has
        THEN IF failAt = 1 THEN Issued(1, Failure("transport"))
             ELSE IF BlobIndex(bs, object) = 0 THEN Issued(1, Failure("NotFound"))
             ELSE Issued(1, Success(Len(BlobBytes(bs, object))))
        ELSE LET filter_res == FilterList(bs, object, sp.pos)
                 blobs_list == filter_res.value
             IN  IF failAt = 1 THEN Issued(1, Failure("transport"))
                 ELSE IF ~filter_res.ok THEN Issued(1, Failure(filter_res.reason))
                 ELSE IF Len(blobs_list) = 1
                 THEN Issued(1, Success(Len(blobs_list[1].bytes)))
                 ELSE LET maybe_header == FindHeader(blobs_list[1].bytes)
                          header == maybe_header.header
                          header_size == Len(header)
                          blob_count == Len(blobs_list)
                          cmp == CompareHeaders(blobs_list, 2, header, TRUE,
                                                ZeroBuffer(header_size), 0)
                          total_size == SumLen([k \in 1 .. blob_count |-> blobs_list[k].bytes])
                      IN  IF failAt \in 2 .. (1 + maybe_header.nreq)
                          THEN Issued(failAt, Failure("transport"))
                          ELSE IF ~maybe_header.found
                          THEN Issued(1 + maybe_header.nreq,
                                      Failure("Error while reading header of first file."))
                          ELSE IF failAt \in (2 + maybe_header.nreq)
                                             .. (1 + maybe_header.nreq + cmp.nreq)
                          THEN Issued(failAt, Failure("transport"))
                          ELSE Issued(1 + maybe_header.nreq + cmp.nreq,
                                      Success(IF cmp.same
                                              THEN total_size - (blob_count - 1) * header_size
                                              ELSE total_size))

(***************************************************************************)
(* The registry of readers.  A stream's handle is its address, which the   *)
(* allocator chooses among the addresses no live stream holds.             *)
(***************************************************************************)
Pointers == {1, 2}

\* FindHandle: the position of the stream at address h, 0 for end().
FindHandle(h, handles) ==
    IF \E i \in 1 .. Len(handles) : handles[i].id = h
    THEN CHOOSE i \in 1 .. Len(handles) :
            handles[i].id = h /\ \A k \in 1 .. (i - 1) : handles[k].id # h
    ELSE 0

FindReader(h) == FindHandle(h, active_reader_handles)

LiveAddresses == { active_reader_handles[i].id : i \in 1 .. Len(active_reader_handles) }

\* PushBackHandle: the stream, at address p, goes to the back of the registry.
PushBackHandle(p, stream, handles) == Append(handles, [id |-> p] @@ stream)

\* RegisterStream putting the stream in the registry before it tests the result.
RegisterStreamUntested(maybe_stream_ptr, p, streams) ==
    [ok |-> maybe_stream_ptr.ok, reason |-> maybe_stream_ptr.reason,
     streams |-> PushBackHandle(p, [filenames |-> <<>>, cumulativeSize |-> <<0>>,
                                    commonHeaderLength |-> 0, offset |-> 0,
                                    total_size |-> 0],
                                streams)]

\* RegisterStream: [ok, reason, streams: the registry after the call].  A stream that
\* could not be made is not registered.
RegisterStream(maybe_stream_ptr, p, streams) ==
    IF ~maybe_stream_ptr.ok
    THEN [ok |-> FALSE, reason |-> maybe_stream_ptr.reason, streams |-> streams]
    ELSE [ok |-> TRUE, reason |-> "",
          streams |-> PushBackHandle(p, maybe_stream_ptr.value, streams)]

FindWriter(h) == FindHandle(h, active_writer_handles)

\* The addresses of the live streams of both registries.
LiveStreams ==
    LiveAddresses \cup { active_writer_handles[i].id : i \in 1 .. Len(active_writer_handles) }

\* EraseRemove without the move: the last stream is dropped, whichever is closed.
EraseRemovePopOnly(pos, handles) == SubSeq(handles, 1, Len(handles) - 1)

\* EraseRemove without the pop: the last stream takes the place, and stays.
EraseRemoveMoveOnly(pos, handles) == [handles EXCEPT ![pos] = handles[Len(handles)]]

\* EraseRemove: *pos = std::move(handles.back()); handles.pop_back().
EraseRemove(pos, handles) ==
    SubSeq([handles EXCEPT ![pos] = handles[Len(handles)]], 1, Len(handles) - 1)

(***************************************************************************)
(* Writers.  The service creates an append blob, empty, under a name: a    *)
(* new name goes to the end of the listing (the names writers are given    *)
(* sort after the names of the container).  A request that throws changes  *)
(* nothing in the container.                                               *)
(***************************************************************************)
NewBlob(object) == [name |-> object, bytes |-> <<>>, deleted |-> FALSE]

\* AppendBlobClient::Create: the blob is created, or replaced by an empty one.
Create(bs, object) ==
    IF BlobIndex(bs, object) = 0 THEN Append(bs, NewBlob(object))
    ELSE [bs EXCEPT ![BlobIndex(bs, object)] = NewBlob(object)]

\* AppendBlobClient::CreateIfNotExists: an existing blob is left as it is.
CreateIfNotExists(bs, object) ==
    IF BlobIndex(bs, object) = 0 THEN Append(bs, NewBlob(object)) ELSE bs

\* AppendBlobClient::AppendBlock: the block goes to the end of the blob.
AppendBlock(bs, object, block) ==
    [bs EXCEPT ![BlobIndex(bs, object)].bytes = @ \o block]

\* The Writer a successful open builds, bound to one blob.
Writer(object) == [filename |-> object]

\* MakeWriterPtr creating the blob anew in both modes.
MakeWriterPtrAlwaysCreate(bs, object, mode, failed) ==
    IF failed THEN [blobs |-> bs] @@ Failure("transport")
    ELSE [blobs |-> Create(bs, object)] @@ Success(Writer(object))

\* MakeWriterPtr: [ok, reason, value: the Writer, blobs: the container after the
\* call]; failed is whether the creation request throws.
MakeWriterPtr(bs, object, mode, failed) ==
    IF failed THEN [blobs |-> bs] @@ Failure("transport")
    ELSE [blobs |-> IF mode = "kWrite" THEN Create(bs, object)
                    ELSE CreateIfNotExists(bs, object)]
         @@ Success(Writer(object))

(***************************************************************************)
(* Locators.  A URI is [null, scheme, service, object]: null for a null    *)
(* pointer argument, the service and the object what ParseAzureUri makes   *)
(* of the host and the path.                                               *)
(***************************************************************************)
ParseAzureUri(uri) ==
    IF uri.scheme # "https" /\ uri.scheme # "http"
    THEN Failure("Invalid Azure URI")
    ELSE Success([service |-> uri.service, object |-> uri.object])

Uri(object) == [null |-> FALSE, scheme |-> "https", service |-> "BLOB", object |-> object]

(***************************************************************************)
(* Connection.                                                             *)
(***************************************************************************)
\* driver_connect: ok is whether the service answers GetProperties.
driver_connect(ok) ==
    /\ bIsConnected' = IF ok THEN kTrue ELSE bIsConnected
    /\ lastError' = IF ok THEN lastError ELSE <<"Connection error.", "transport">>
    /\ last' = [op |-> "connect", ret |-> IF ok THEN kSuccess ELSE kFailure,
                err |-> IF ok THEN <<>> ELSE <<"Connection error.", "transport">>]
    /\ UNCHANGED <<blobs, active_reader_handles, active_writer_handles>>

\* driver_disconnect leaving the flag as it is.
driver_disconnect_flag_kept ==
    /\ active_reader_handles' = <<>>
    /\ active_writer_handles' = <<>>
    /\ bIsConnected' = bIsConnected
    /\ last' = [op |-> "disconnect", ret |-> kSuccess, err |-> <<>>,
                cleared |-> Len(active_reader_handles) + Len(active_writer_handles)]
    /\ UNCHANGED <<blobs, lastError>>

\* driver_disconnect without active_writer_handles.clear().
driver_disconnect_writers_kept ==
    /\ active_reader_handles' = <<>>
    /\ active_writer_handles' = active_writer_handles
    /\ bIsConnected' = kFalse
    /\ last' = [op |-> "disconnect", ret |-> kSuccess, err |-> <<>>,
                cleared |-> Len(active_reader_handles)]
    /\ UNCHANGED <<blobs, lastError>>

\* driver_disconnect: cleared is the number of streams the call destroys.
driver_disconnect ==
    /\ active_reader_handles' = <<>>
    /\ active_writer_handles' = <<>>
    /\ bIsConnected' = kFalse
    /\ last' = [op |-> "disconnect", ret |-> kSuccess, err |-> <<>>,
                cleared |-> Len(active_reader_handles) + Len(active_writer_handles)]
    /\ UNCHANGED <<blobs, lastError>>

(***************************************************************************)
(* Size query and open.                                                    *)
(***************************************************************************)
\* driver_getFileSize: [ret, err], err the text logged (<<>> when none is).
\* The ordinal of the request that failed in a call that made nreq requests, 0 when
\* the call ended before the request chosen to fail.
FailedRequest(failAt, nreq) == IF failAt > nreq THEN 0 ELSE failAt

GetFileSizeCall(uri, failAt) ==
    LET maybe_parsed_names == ParseAzureUri(uri)
        parsed_names == maybe_parsed_names.value
        res == GetFileSize(blobs, parsed_names.object, failAt)
        quit(err) == [ret |-> kBadSize, err |-> err, nreq |-> 0]
    IN  IF bIsConnected = kFalse THEN quit(<<"Error: driver not connected.">>)
        ELSE IF uri.null THEN quit(<<"Error passing null pointer to driver_getFileSize">>)
        ELSE IF ~maybe_parsed_names.ok
        THEN quit(<<"Error parsing URL", maybe_parsed_names.reason>>)
        ELSE IF parsed_names.service # "BLOB"
        THEN quit(<<"Functionality not implemented for this type of service.">>)
        ELSE IF ~res.ok
        THEN [ret |-> kBadSize, err |-> <<"Error while getting file size.", res.reason>>,
              nreq |-> res.nreq]
        ELSE [ret |-> res.value, err |-> <<>>, nreq |-> res.nreq]

driver_getFileSize(uri, failAt) ==
    \E r \in {GetFileSizeCall(uri, failAt)} :
        /\ lastError' = IF r.err = <<>> THEN lastError ELSE r.err
        /\ last' = [op |-> "getFileSize", uri |-> uri, failAt |-> FailedRequest(failAt, r.nreq),
                    ret |-> r.ret, err |-> r.err, nreq |-> r.nreq]
        /\ UNCHANGED <<bIsConnected, blobs, active_reader_handles, active_writer_handles>>

\* BackItem taking the first blob of the list.
FrontItem(items) == [Name |-> items[1].name]

\* filter_res.GetValue().back(): the last blob of the list FilterList returned.
BackItem(items) == [Name |-> items[Len(items)].name]

\* driver_fopen: [ret, err, readers, writers, blobs, nreq], p the address of the
\* stream when one is made.  An unknown mode logs "Invalid open mode: " + mode, which
\* adds a char to a pointer to a string literal: junk is the text found at that
\* address, possibly none (<<>>: the empty text, which LogError stores as any other).
FopenCall(uri, mode, p, failAt, junk) ==
    LET name_parsing_result == ParseAzureUri(uri)
        parsed_names == name_parsing_result.value
        quit(err, nreq) ==
            [ret |-> nullptr, err |-> err, readers |-> active_reader_handles,
             writers |-> active_writer_handles, blobs |-> blobs, nreq |-> nreq]
        opened(w, nreq) ==
            [ret |-> p, err |-> <<>>, readers |-> active_reader_handles,
             writers |-> PushBackHandle(p, w.value, active_writer_handles),
             blobs |-> w.blobs, nreq |-> nreq]
    IN  IF bIsConnected = kFalse THEN quit(<<"Error: driver not connected.">>, 0)
        ELSE IF uri.null THEN quit(<<"Error passing null pointer to driver_fopen">>, 0)
        ELSE IF ~name_parsing_result.ok
        THEN quit(<<"Error parsing URL", name_parsing_result.reason>>, 0)
        ELSE CASE mode = "r" ->
                LET maybe_stream_ptr == MakeReaderPtr(blobs, parsed_names.object, failAt)
                    register_res == RegisterStream(maybe_stream_ptr, p, active_reader_handles)
                IN  [ret |-> IF register_res.ok THEN p ELSE nullptr,
                     err |-> IF register_res.ok THEN <<>>
                             ELSE <<"Error while opening reader stream.",
                                    register_res.reason>>,
                     readers |-> register_res.streams,
                     writers |-> active_writer_handles, blobs |-> blobs,
                     nreq |-> maybe_stream_ptr.nreq]
          [] mode = "w" ->
                LET register_res == MakeWriterPtr(blobs, parsed_names.object, "kWrite",
                                                  failAt = 1)
                IN  IF ~register_res.ok
                    THEN quit(<<"Error while opening writer stream.", register_res.reason>>, 1)
                    ELSE opened(register_res, 1)
          [] mode = "a" ->
                LET sp == FindPatternSpecialChar(parsed_names.object)
                    filter_res == FilterList(blobs, parsed_names.object, sp.pos)
                    listed == IF sp.has THEN 1 ELSE 0
                    target == IF sp.has THEN BackItem(filter_res.value).Name
                              ELSE parsed_names.object
                    register_res == MakeWriterPtr(blobs, target, "kAppend",
                                                  failAt = listed + 1)
                    text == "Error while opening stream in append mode."
                IN  IF sp.has /\ failAt = 1 THEN quit(<<text, "transport">>, 1)
                    ELSE IF sp.has /\ ~filter_res.ok THEN quit(<<text, filter_res.reason>>, 1)
                    ELSE IF ~register_res.ok
                    THEN quit(<<text, register_res.reason>>, listed + 1)
                    ELSE opened(register_res, listed + 1)
          [] OTHER -> quit(junk, 0)

driver_fopen(uri, mode, p, failAt, junk) ==
    \E r \in {FopenCall(uri, mode, p, failAt, junk)} :
        /\ active_reader_handles' = r.readers
        /\ active_writer_handles' = r.writers
        /\ blobs' = r.blobs
        /\ lastError' = IF r.ret # nullptr THEN lastError ELSE r.err
        /\ last' = [op |-> "fopen", uri |-> uri, mode |-> mode,
                    failAt |-> FailedRequest(failAt, r.nreq), ret |-> r.ret, err |-> r.err,
                    nreq |-> r.nreq]
        /\ UNCHANGED bIsConnected

(***************************************************************************)
(* Close.                                                                  *)
(***************************************************************************)
\* A close that looks for the stream among the readers only.
FcloseCallReadersOnly(h) ==
    LET reader_stream_it == FindReader(h)
    IN  IF h = nullptr
        THEN [ret |-> kCloseEOF, err |-> <<"Error passing null pointer to driver_fclose">>,
              readers |-> active_reader_handles, writers |-> active_writer_handles]
        ELSE IF reader_stream_it # 0
        THEN [ret |-> kCloseSuccess, err |-> <<>>,
              readers |-> EraseRemove(reader_stream_it, active_reader_handles),
              writers |-> active_writer_handles]
        ELSE [ret |-> kCloseEOF, err |-> <<"Cannot identify stream.">>,
              readers |-> active_reader_handles, writers |-> active_writer_handles]

\* driver_fclose: [ret, err, readers, writers], what the call does once past its
\* first statement, assert(driver_isConnected()).
FcloseCall(h) ==
    LET reader_stream_it == FindReader(h)
        writer_stream_it == FindWriter(h)
    IN  IF h = nullptr
        THEN [ret |-> kCloseEOF, err |-> <<"Error passing null pointer to driver_fclose">>,
              readers |-> active_reader_handles, writers |-> active_writer_handles]
        ELSE IF reader_stream_it # 0
        THEN [ret |-> kCloseSuccess, err |-> <<>>,
              readers |-> EraseRemove(reader_stream_it, active_reader_handles),
              writers |-> active_writer_handles]
        ELSE IF writer_stream_it # 0
        THEN [ret |-> kCloseSuccess, err |-> <<>>,
              readers |-> active_reader_handles,
              writers |-> EraseRemove(writer_stream_it, active_writer_handles)]
        ELSE [ret |-> kCloseEOF, err |-> <<"Cannot identify stream.">>,
              readers |-> active_reader_handles, writers |-> active_writer_handles]

\* assert(driver_isConnected()): while the driver is not connected a build with
\* assertions aborts the process there, a build without them (NDEBUG) goes on.
AssertConnected == {a \in BOOLEAN : a => bIsConnected = kFalse}

\* The process is gone: the last call aborted it.
Aborted ==
    last.op \in {"fclose", "rmdir", "mkdir", "diskFreeSpace", "exist"} /\ last.aborted

\* The last call is in a loop it never leaves.
Hung == last.op = "copyToLocal" /\ last.hung

driver_fclose(h) ==
    \E aborted \in AssertConnected, r \in {FcloseCall(h)} :
        /\ active_reader_handles' = IF aborted THEN active_reader_handles ELSE r.readers
        /\ active_writer_handles' = IF aborted THEN active_writer_handles ELSE r.writers
        /\ lastError' = IF aborted \/ r.err = <<>> THEN lastError ELSE r.err
        /\ last' = [op |-> "fclose", h |-> h, ret |-> r.ret, err |-> r.err,
                    reader_stream_it |-> FindReader(h), writer_stream_it |-> FindWriter(h),
                    aborted |-> aborted]
        /\ UNCHANGED <<bIsConnected, blobs>>

(***************************************************************************)
(* Seek.                                                                   *)
(***************************************************************************)
\* AdditionOverflows with the bound off by one: a sum equal to max_val is refused.
AdditionOverflowsAtMax(offset, base) == offset >= max_val - base

\* if (offset > max_val - base): the test made before offset is added to base.
AdditionOverflows(offset, base) == offset > max_val - base

\* EndOffset without the case of an empty file: the anchor is always total_size - 1.
EndOffsetLastByte(total_size, offset) == Wrap64(total_size - 1 + offset)

\* EndOffset anchored one past the last byte: total_size + offset.
EndOffsetPastEnd(total_size, offset) ==
    IF total_size = 0 THEN offset ELSE Wrap64(total_size + offset)

\* computed_offset = (total_size_ == 0) ? offset : total_size_ - 1 + offset.
EndOffset(total_size, offset) ==
    IF total_size = 0 THEN offset ELSE Wrap64(total_size - 1 + offset)

\* StoreOffset with an upper clamp: an offset past the end becomes the end.
StoreOffsetClamped(reader, computed_offset) ==
    IF computed_offset < 0
    THEN [ok |-> FALSE, err |-> <<"Invalid seek offset">>, offset |-> reader.offset]
    ELSE [ok |-> TRUE, err |-> <<>>, offset |-> Min(computed_offset, reader.total_size)]

\* StoreOffset without the test of the sign: any computed_offset becomes the cursor.
StoreOffsetUnchecked(reader, computed_offset) ==
    [ok |-> TRUE, err |-> <<>>, offset |-> computed_offset]

\* The end of driver_fseek: a negative computed_offset is refused, any other becomes
\* the cursor.  [ok, err, offset: the cursor after the call].
StoreOffset(reader, computed_offset) ==
    IF computed_offset < 0
    THEN [ok |-> FALSE, err |-> <<"Invalid seek offset">>, offset |-> reader.offset]
    ELSE [ok |-> TRUE, err |-> <<>>, offset |-> computed_offset]

\* The switch on whence and the final test of driver_fseek, for the reader found:
\* [ok, err, offset: the cursor after the call].
SeekReader(reader, offset, whence) ==
    LET fail(text) == [ok |-> FALSE, err |-> <<text>>, offset |-> reader.offset]
        done(computed_offset) == StoreOffset(reader, computed_offset)
    IN  CASE whence = "beg" -> done(offset)
          [] whence = "cur" ->
                IF AdditionOverflows(offset, reader.offset)
                THEN fail("Signed overflow prevented")
                ELSE done(Wrap64(reader.offset + offset))
          [] whence = "end" ->
                IF reader.total_size > 0 /\ AdditionOverflows(offset, reader.total_size - 1)
                THEN fail("Signed overflow prevented")
                ELSE IF offset = min_val /\ reader.total_size = 0
                THEN fail("Signed overflow prevented")
                ELSE done(EndOffset(reader.total_size, offset))
          [] OTHER -> fail("Invalid seek mode")

\* FseekCall with the cursor reset by a seek that is refused.
FseekCallResetting(h, offset, whence) ==
    LET reader_ptr_it == FindReader(h)
        r == SeekReader(active_reader_handles[reader_ptr_it], offset, whence)
        fail(err) == [ret |-> kBadSize, err |-> err, readers |-> active_reader_handles]
    IN  IF bIsConnected = kFalse THEN fail(<<"Error: driver not connected.">>)
        ELSE IF h = nullptr THEN fail(<<"Error passing null pointer to driver_fseek">>)
        ELSE IF reader_ptr_it = 0 THEN fail(<<"Cannot identify stream as a reader stream.">>)
        ELSE IF ~r.ok
        THEN [ret |-> kBadSize, err |-> r.err,
              readers |-> [active_reader_handles EXCEPT ![reader_ptr_it].offset = 0]]
        ELSE [ret |-> 0, err |-> <<>>,
              readers |-> [active_reader_handles EXCEPT ![reader_ptr_it].offset = r.offset]]

\* driver_fseek: [ret, err, readers].
FseekCall(h, offset, whence) ==
    LET reader_ptr_it == FindReader(h)
        r == SeekReader(active_reader_handles[reader_ptr_it], offset, whence)
        fail(err) == [ret |-> kBadSize, err |-> err, readers |-> active_reader_handles]
    IN  IF bIsConnected = kFalse THEN fail(<<"Error: driver not connected.">>)
        ELSE IF h = nullptr THEN fail(<<"Error passing null pointer to driver_fseek">>)
        ELSE IF reader_ptr_it = 0 THEN fail(<<"Cannot identify stream as a reader stream.">>)
        ELSE IF ~r.ok THEN fail(r.err)
        ELSE [ret |-> 0, err |-> <<>>,
              readers |-> [active_reader_handles EXCEPT ![reader_ptr_it].offset = r.offset]]

\* The cursor of the stream at address h, -1 when no reader is there.
CursorOf(h) ==
    IF FindReader(h) = 0 THEN -1 ELSE active_reader_handles[FindReader(h)].offset

driver_fseek(h, offset, whence) ==
    \E r \in {FseekCall(h, offset, whence)} :
        /\ active_reader_handles' = r.readers
        /\ lastError' = IF r.err = <<>> THEN lastError ELSE r.err
        /\ last' = [op |-> "fseek", h |-> h, offset |-> offset, whence |-> whence,
                    before |-> CursorOf(h), ret |-> r.ret, err |-> r.err]
        /\ UNCHANGED <<bIsConnected, blobs, active_writer_handles>>

(***************************************************************************)
(* Read.                                                                   *)
(***************************************************************************)
\* The largest size_t: the width of tOffset, unsigned.
size_max == 2 ^ OffsetBits - 1

\* size * count as the multiplication of two size_t leaves it.
SizeProduct(size, count) == (size * count) % (2 ^ OffsetBits)

\* The test refusing a product that equals the largest offset.
WillSizeCountProductOverflowAtMax(size, count) ==
    (max_val \div size) <= count \/ (max_val \div count) <= size

\* bool WillSizeCountProductOverflow(size, count), for size > 0 and count > 0.
WillSizeCountProductOverflow(size, count) ==
    (max_val \div size) < count \/ (max_val \div count) < size

\* std::upper_bound over cumul_sizes as the library's halving search runs it: the
\* 0-based position it returns, the first element greater than val when the
\* sequence is sorted.
RECURSIVE UpperBoundFrom(_, _, _, _)
UpperBoundFrom(cumul_sizes, first, len, val) ==
    IF len <= 0 THEN first
    ELSE LET half == len \div 2
             middle == first + half
         IN  IF val < cumul_sizes[middle + 1]
             THEN UpperBoundFrom(cumul_sizes, first, half, val)
             ELSE UpperBoundFrom(cumul_sizes, middle + 1, len - half - 1, val)

UpperBound(cumul_sizes, val) == UpperBoundFrom(cumul_sizes, 0, Len(cumul_sizes), val)

\* The physical offset of the first range: the cursor in the first part, else the
\* cursor less the sizes before the part, plus the header length.
FileStart(idx, offset, cumul_sizes, common_header_length) ==
    IF idx = 0 THEN offset
    ELSE offset - cumul_sizes[idx] + common_header_length

\* NextStart reading the next parts from their first byte, header included.
NextStartAtZero(common_header_length) == 0

\* The physical offset of the ranges read in the parts after the first one read.
NextStart(common_header_length) == common_header_length

\* The ranges after the first: while (to_read) { idx++; ... }.  Each is
\* [idx, start, length].  The loop of the code has no test on idx; the ranges listed
\* here end with the index, which the loop reaches only with to_read = 0 when
\* to_read starts at most total_size - offset.
RECURSIVE NextRanges(_, _, _)
NextRanges(reader, idx, to_read) ==
    IF to_read = 0 \/ idx + 1 >= Len(reader.cumulativeSize) THEN <<>>
    ELSE LET next == idx + 1
             length == Min(to_read,
                           reader.cumulativeSize[next + 1] - reader.cumulativeSize[next])
         IN  <<[idx |-> next, start |-> NextStart(reader.commonHeaderLength),
                length |-> length]>>
             \o NextRanges(reader, next, to_read - length)

\* Every range ReadBytesInFile asks for when no download fails, in order.
ReadRanges(reader, to_read) ==
    LET cumul_sizes == reader.cumulativeSize
        idx == UpperBound(cumul_sizes, reader.offset)
        file_start == FileStart(idx, reader.offset, cumul_sizes, reader.commonHeaderLength)
        read_length == Min(to_read, cumul_sizes[idx + 1] - reader.offset)
    IN  <<[idx |-> idx, start |-> file_start, length |-> read_length]>>
        \o NextRanges(reader, idx, to_read - read_length)

\* The caller's buffer of n bytes before the call: nothing the driver wrote.
Unset == -1
FreshBuffer(n) == [k \in 1 .. n |-> Unset]

\* DownloadTo(buffer_pos, length, range): the bytes received land at buffer_pos.
WriteAt(buffer, buffer_pos, bytes) ==
    [k \in 1 .. Len(buffer) |->
        IF k - buffer_pos \in 1 .. Len(bytes) THEN bytes[k - buffer_pos] ELSE buffer[k]]

\* read_range_and_update over the first n ranges: [offset, buffer, buffer_pos].
RECURSIVE Transfer(_, _, _, _, _)
Transfer(bs, reader, ranges, n, st) ==
    IF n = 0 THEN st
    ELSE LET prev == Transfer(bs, reader, ranges, n - 1, st)
             rg == ranges[n]
             dl == DownloadRange(BlobBytes(bs, reader.filenames[rg.idx + 1]),
                                 rg.start, rg.length)
         IN  [offset |-> prev.offset + rg.length,
              buffer |-> WriteAt(prev.buffer, prev.buffer_pos, dl),
              buffer_pos |-> prev.buffer_pos + rg.length]

\* recover_offset left out: the cursor stays where the ranges read had moved it.
KeepOffset(offset_bak, offset) == offset

\* recover_offset: the cursor a failed read leaves.
RecoverOffset(offset_bak, offset) == offset_bak

\* ReadBytesInFile: [ok, offset: the cursor after the call, buffer, reqs: the ranges
\* asked for, the failing one included].
ReadBytesInFile(bs, reader, to_read, failAt) ==
    LET ranges == ReadRanges(reader, to_read)
        failed == failAt \in 1 .. Len(ranges)
        n == IF failed THEN failAt - 1 ELSE Len(ranges)
        st == Transfer(bs, reader, ranges, n,
                       [offset |-> reader.offset, buffer |-> FreshBuffer(to_read),
                        buffer_pos |-> 0])
    IN  [ok |-> ~failed,
         offset |-> IF failed THEN RecoverOffset(reader.offset, st.offset) ELSE st.offset,
         buffer |-> st.buffer,
         reqs |-> IF failed THEN SubSeq(ranges, 1, failAt) ELSE ranges]

\* ClampToRead without the cut at the end of the file.
NoClamp(offset, to_read, total_size) == to_read

\* The length driver_fread asks ReadBytesInFile for: the request cut at the end.
ClampToRead(offset, to_read, total_size) ==
    IF offset + to_read > total_size THEN total_size - offset ELSE to_read

\* FreadCall with the fast exit for a count of 0 taken before the test of the size.
FreadCallCountFirst(ptr_null, size, count, h, failAt) ==
    LET reader_ptr_it == FindReader(h)
        reader == active_reader_handles[reader_ptr_it]
        to_read == Wrap64(SizeProduct(size, count))
        clamped == ClampToRead(reader.offset, to_read, reader.total_size)
        read_res == ReadBytesInFile(blobs, reader, clamped, failAt)
        quit(ret, err) == [ret |-> ret, err |-> err, readers |-> active_reader_handles,
                           buffer |-> <<>>, reqs |-> <<>>]
    IN  IF bIsConnected = kFalse THEN quit(kBadSize, <<"Error: driver not connected.">>)
        ELSE IF h = nullptr
        THEN quit(kBadSize, <<"Error passing null pointer to driver_fread">>)
        ELSE IF ptr_null
        THEN quit(kBadSize, <<"Error passing null pointer to driver_fread">>)
        ELSE IF count = 0 THEN quit(0, <<>>)
        ELSE IF size = 0 THEN quit(kBadSize, <<"Error passing size of 0">>)
        ELSE IF reader_ptr_it = 0
        THEN quit(kBadSize, <<"Cannot identify stream as a reader stream.">>)
        ELSE IF WillSizeCountProductOverflow(size, count)
        THEN quit(kBadSize, <<"product size * count is too large, would overflow">>)
        ELSE IF reader.offset > max_val - to_read
        THEN quit(kBadSize, <<"signed overflow prevented on reading attempt">>)
        ELSE IF reader.offset >= reader.total_size
        THEN quit(kBadSize,
                  <<"Error trying to read more bytes while already out of bounds">>)
        ELSE IF ~read_res.ok
        THEN [ret |-> kBadSize, err |-> <<"Error while reading from file.", "transport">>,
              readers |-> [active_reader_handles EXCEPT
                              ![reader_ptr_it].offset = read_res.offset],
              buffer |-> read_res.buffer, reqs |-> read_res.reqs]
        ELSE [ret |-> clamped, err |-> <<>>,
              readers |-> [active_reader_handles EXCEPT
                              ![reader_ptr_it].offset = read_res.offset],
              buffer |-> read_res.buffer, reqs |-> read_res.reqs]

\* driver_fread: [ret, err, readers, buffer, reqs].
FreadCall(ptr_null, size, count, h, failAt) ==
    LET reader_ptr_it == FindReader(h)
        reader == active_reader_handles[reader_ptr_it]
        to_read == Wrap64(SizeProduct(size, count))
        clamped == ClampToRead(reader.offset, to_read, reader.total_size)
        read_res == ReadBytesInFile(blobs, reader, clamped, failAt)
        quit(ret, err) == [ret |-> ret, err |-> err, readers |-> active_reader_handles,
                           buffer |-> <<>>, reqs |-> <<>>]
    IN  IF bIsConnected = kFalse THEN quit(kBadSize, <<"Error: driver not connected.">>)
        ELSE IF h = nullptr
        THEN quit(kBadSize, <<"Error passing null pointer to driver_fread">>)
        ELSE IF ptr_null
        THEN quit(kBadSize, <<"Error passing null pointer to driver_fread">>)
        ELSE IF size = 0 THEN quit(kBadSize, <<"Error passing size of 0">>)
        ELSE IF reader_ptr_it = 0
        THEN quit(kBadSize, <<"Cannot identify stream as a reader stream.">>)
        ELSE IF count = 0 THEN quit(0, <<>>)
        ELSE IF WillSizeCountProductOverflow(size, count)
        THEN quit(kBadSize, <<"product size * count is too large, would overflow">>)
        ELSE IF reader.offset > max_val - to_read
        THEN quit(kBadSize, <<"signed overflow prevented on reading attempt">>)
        ELSE IF reader.offset >= reader.total_size
        THEN quit(kBadSize,
                  <<"Error trying to read more bytes while already out of bounds">>)
        ELSE IF ~read_res.ok
        THEN [ret |-> kBadSize, err |-> <<"Error while reading from file.", "transport">>,
              readers |-> [active_reader_handles EXCEPT
                              ![reader_ptr_it].offset = read_res.offset],
              buffer |-> read_res.buffer, reqs |-> read_res.reqs]
        ELSE [ret |-> clamped, err |-> <<>>,
              readers |-> [active_reader_handles EXCEPT
                              ![reader_ptr_it].offset = read_res.offset],
              buffer |-> read_res.buffer, reqs |-> read_res.reqs]

\* driver_fread with LogError left out: the call fails without recording its error.
driver_fread_unlogged(ptr_null, size, count, h, failAt) ==
    \E r \in {FreadCall(ptr_null, size, count, h, failAt)} :
        /\ active_reader_handles' = r.readers
        /\ lastError' = lastError
        /\ last' = [op |-> "fread", h |-> h, ptr_null |-> ptr_null, size |-> size,
                    count |-> count, before |-> CursorOf(h), ret |-> r.ret,
                    err |-> r.err, buffer |-> r.buffer, reqs |-> r.reqs]
        /\ UNCHANGED <<bIsConnected, blobs, active_writer_handles>>

driver_fread(ptr_null, size, count, h, failAt) ==
    \E r \in {FreadCall(ptr_null, size, count, h, failAt)} :
        /\ active_reader_handles' = r.readers
        /\ lastError' = IF r.err = <<>> THEN lastError ELSE r.err
        /\ last' = [op |-> "fread", h |-> h, ptr_null |-> ptr_null, size |-> size,
                    count |-> count, before |-> CursorOf(h), ret |-> r.ret,
                    err |-> r.err, buffer |-> r.buffer, reqs |-> r.reqs]
        /\ UNCHANGED <<bIsConnected, blobs, active_writer_handles>>

(***************************************************************************)
(* Write and flush.                                                        *)
(***************************************************************************)
\* FwriteCall with an append that fails after the service took the first byte.
FwriteCallPrefixKept(ptr_null, buffer, size, count, h, failed) ==
    LET writer_ptr_it == FindWriter(h)
        writer == active_writer_handles[writer_ptr_it]
        to_write == SizeProduct(size, count)
        quit(ret, err) == [ret |-> ret, err |-> err, blobs |-> blobs]
    IN  IF bIsConnected = kFalse THEN quit(kBadSize, <<"Error: driver not connected.">>)
        ELSE IF h = nullptr
        THEN quit(kBadSize, <<"Error passing null pointer to driver_fwrite">>)
        ELSE IF ptr_null
        THEN quit(kBadSize, <<"Error passing null pointer to driver_fwrite">>)
        ELSE IF size = 0 THEN quit(kBadSize, <<"Error passing size 0 to fwrite">>)
        ELSE IF writer_ptr_it = 0
        THEN quit(kBadSize, <<"Cannot identify stream as a writer stream.">>)
        ELSE IF count = 0 THEN quit(0, <<>>)
        ELSE IF WillSizeCountProductOverflow(size, count)
        THEN quit(kBadSize,
                  <<"Error on write: product size * count is too large, would overflow">>)
        ELSE IF failed
        THEN [ret |-> kBadSize, err |-> <<"Error while writing data.", "transport">>,
              blobs |-> AppendBlock(blobs, writer.filename, Take(buffer, 1))]
        ELSE [ret |-> to_write, err |-> <<>>,
              blobs |-> AppendBlock(blobs, writer.filename, Take(buffer, to_write))]

\* driver_fwrite: [ret, err, blobs].  buffer is what ptr points to, size * count
\* bytes when the guards pass; failed is whether AppendBlock throws.
FwriteCall(ptr_null, buffer, size, count, h, failed) ==
    LET writer_ptr_it == FindWriter(h)
        writer == active_writer_handles[writer_ptr_it]
        to_write == SizeProduct(size, count)
        quit(ret, err) == [ret |-> ret, err |-> err, blobs |-> blobs]
    IN  IF bIsConnected = kFalse THEN quit(kBadSize, <<"Error: driver not connected.">>)
        ELSE IF h = nullptr
        THEN quit(kBadSize, <<"Error passing null pointer to driver_fwrite">>)
        ELSE IF ptr_null
        THEN quit(kBadSize, <<"Error passing null pointer to driver_fwrite">>)
        ELSE IF size = 0 THEN quit(kBadSize, <<"Error passing size 0 to fwrite">>)
        ELSE IF writer_ptr_it = 0
        THEN quit(kBadSize, <<"Cannot identify stream as a writer stream.">>)
        ELSE IF count = 0 THEN quit(0, <<>>)
        ELSE IF WillSizeCountProductOverflow(size, count)
        THEN quit(kBadSize,
                  <<"Error on write: product size * count is too large, would overflow">>)
        ELSE IF failed THEN quit(kBadSize, <<"Error while writing data.", "transport">>)
        ELSE [ret |-> to_write, err |-> <<>>,
              blobs |-> AppendBlock(blobs, writer.filename, Take(buffer, to_write))]

driver_fwrite(ptr_null, buffer, size, count, h, failed) ==
    \E r \in {FwriteCall(ptr_null, buffer, size, count, h, failed)} :
        /\ blobs' = r.blobs
        /\ lastError' = IF r.err = <<>> THEN lastError ELSE r.err
        /\ last' = [op |-> "fwrite", h |-> h, ptr_null |-> ptr_null, buffer |-> buffer,
                    size |-> size, count |-> count, failed |-> failed, ret |-> r.ret,
                    err |-> r.err]
        /\ UNCHANGED <<bIsConnected, active_reader_handles, active_writer_handles>>

\* FflushCall looking for the handle in both registries.
FflushCallAnyStream(h) ==
    IF bIsConnected = kFalse THEN [ret |-> -1, err |-> <<"Error: driver not connected.">>]
    ELSE IF h = nullptr
    THEN [ret |-> -1, err |-> <<"Error passing null pointer to driver_fflush">>]
    ELSE IF FindWriter(h) = 0 /\ FindReader(h) = 0
    THEN [ret |-> -1, err |-> <<"Cannot identify stream as a writer stream.">>]
    ELSE [ret |-> 0, err |-> <<>>]

\* driver_fflush: [ret, err].
FflushCall(h) ==
    IF bIsConnected = kFalse THEN [ret |-> -1, err |-> <<"Error: driver not connected.">>]
    ELSE IF h = nullptr
    THEN [ret |-> -1, err |-> <<"Error passing null pointer to driver_fflush">>]
    ELSE IF FindWriter(h) = 0
    THEN [ret |-> -1, err |-> <<"Cannot identify stream as a writer stream.">>]
    ELSE [ret |-> 0, err |-> <<>>]

driver_fflush(h) ==
    \E r \in {FflushCall(h)} :
        /\ lastError' = IF r.err = <<>> THEN lastError ELSE r.err
        /\ last' = [op |-> "fflush", h |-> h, ret |-> r.ret, err |-> r.err]
        /\ UNCHANGED <<bIsConnected, blobs, active_reader_handles, active_writer_handles>>

(***************************************************************************)
(* The last error.                                                         *)
(***************************************************************************)
\* driver_getlasterror: [null, text], the null pointer when lastError is empty.
GetlasterrorCall == [null |-> lastError = <<>>, text |-> lastError]

driver_getlasterror ==
    /\ last' = [op |-> "getlasterror", ret |-> GetlasterrorCall]
    /\ UNCHANGED <<bIsConnected, blobs, active_reader_handles, active_writer_handles,
                   lastError>>

\* driver_isConnected.
driver_isConnected ==
    /\ last' = [op |-> "isConnected", ret |-> bIsConnected]
    /\ UNCHANGED <<bIsConnected, blobs, active_reader_handles, active_writer_handles,
                   lastError>>

(***************************************************************************)
(* Existence.  The text of a locator is its scheme, "://", the host and    *)
(* the container, "/", and the object: it is empty when the scheme is, and *)
(* ends with the last character of the object, or with the '/' before it   *)
(* when the object is empty.                                               *)
(***************************************************************************)
EmptyText(uri) == uri.scheme = "" /\ uri.object = <<>>

\* file_uri.back() of a locator that is not empty.
Back(uri) == IF uri.object = <<>> THEN "/" ELSE uri.object[Len(uri.object)]

\* spdlog's levels in their order: trace < debug < info.
LogLevels == {"trace", "debug", "info"}

\* spdlog::get_level() >= spdlog::level::debug.
AtLeastDebug(level) == level # "trace"

\* driver_dirExists: [ret, err].
DirExistsCall(uri) ==
    IF bIsConnected = kFalse THEN [ret |-> kFalse, err |-> <<"Error: driver not connected.">>]
    ELSE IF uri.null
    THEN [ret |-> kFalse, err |-> <<"Error passing null pointer to driver_dirExists">>]
    ELSE [ret |-> kTrue, err |-> <<>>]

\* driver_fileExists: [ret, err, nreq].  failed is whether the one request of the
\* call (GetProperties or the listing) throws something else than NotFound; level is
\* the log level connect has set.  A locator that does not parse logs "Error while
\* parsing Uri." and goes on with an empty result, whose service is UNKNOWN.
FileExistsCall(uri, failed, level) ==
    LET maybe_parsed_names == ParseAzureUri(uri)
        service == IF maybe_parsed_names.ok THEN maybe_parsed_names.value.service
                   ELSE "UNKNOWN"
        object == maybe_parsed_names.value.object
        sp == FindPatternSpecialChar(object)
        filter_res == FilterList(blobs, object, sp.pos)
    IN  IF bIsConnected = kFalse
        THEN [ret |-> kFalse, err |-> <<"Error: driver not connected.">>, nreq |-> 0]
        ELSE IF uri.null
        THEN [ret |-> kFalse, err |-> <<"Error passing null pointer to driver_fileExists">>,
              nreq |-> 0]
        ELSE IF service # "BLOB"
        THEN [ret |-> kFalse,
              err |-> <<"Error checking blob's existence: not a URL of a blob service.">>,
              nreq |-> 0]
        ELSE IF ~sp.has
        THEN IF failed
             THEN [ret |-> kFalse,
                   err |-> <<"Error while checking file's presence.", "transport">>,
                   nreq |-> 1]
             ELSE [ret |-> IF BlobIndex(blobs, object) # 0 THEN kTrue ELSE kFalse,
                   err |-> <<>>, nreq |-> 1]
        ELSE IF failed
        THEN [ret |-> kFalse,
              err |-> IF AtLeastDebug(level)
                      THEN <<"Error while listing blobs in container.", "transport">>
                      ELSE <<>>,
              nreq |-> 1]
        ELSE [ret |-> IF filter_res.ok THEN kTrue ELSE kFalse, err |-> <<>>, nreq |-> 1]

driver_fileExists(uri, failed, level) ==
    \E r \in {FileExistsCall(uri, failed, level)} :
        /\ lastError' = IF r.err = <<>> THEN lastError ELSE r.err
        /\ last' = [op |-> "fileExists", uri |-> uri, failed |-> failed /\ r.nreq > 0,
                    ret |-> r.ret, err |-> r.err, aborted |-> FALSE]
        /\ UNCHANGED <<bIsConnected, blobs, active_reader_handles, active_writer_handles>>

driver_dirExists(uri) ==
    \E r \in {DirExistsCall(uri)} :
        /\ lastError' = IF r.err = <<>> THEN lastError ELSE r.err
        /\ last' = [op |-> "dirExists", uri |-> uri, failed |-> FALSE, ret |-> r.ret,
                    err |-> r.err, aborted |-> FALSE]
        /\ UNCHANGED <<bIsConnected, blobs, active_reader_handles, active_writer_handles>>

\* What file_uri.back() gives for an empty locator, where it is undefined: the
\* process ends, or some character is read, '/' or another.
BackOfEmpty == {"crash", "/", "x"}

\* driver_exist: [ret, err, nreq, aborted].  back is the outcome of file_uri.back()
\* when the locator is empty.
ExistCall(uri, failed, level, back) ==
    LET quit(err, aborted) ==
            [ret |-> kFalse, err |-> err, nreq |-> 0, aborted |-> aborted]
        dir == DirExistsCall(uri)
        file == FileExistsCall(uri, failed, level)
    IN  IF bIsConnected = kFalse THEN quit(<<"Error: driver not connected.">>, FALSE)
        ELSE IF uri.null
        THEN quit(<<"Error passing null pointer to driver_exist">>, FALSE)
        ELSE IF EmptyText(uri) /\ back = "crash" THEN quit(<<>>, TRUE)
        ELSE IF (IF EmptyText(uri) THEN back ELSE Back(uri)) = "/"
        THEN [ret |-> dir.ret, err |-> dir.err, nreq |-> 0, aborted |-> FALSE]
        ELSE [ret |-> file.ret, err |-> file.err, nreq |-> file.nreq, aborted |-> FALSE]

driver_exist(uri, failed, level, back) ==
    \E r \in {ExistCall(uri, failed, level, back)} :
        /\ lastError' = IF r.err = <<>> THEN lastError ELSE r.err
        /\ last' = [op |-> "exist", uri |-> uri, failed |-> failed /\ r.nreq > 0,
                    ret |-> r.ret, err |-> r.err, aborted |-> r.aborted]
        /\ UNCHANGED <<bIsConnected, blobs, active_reader_handles, active_writer_handles>>

(***************************************************************************)
(* Removal and directories.                                                *)
(***************************************************************************)
\* BlobClient::DeleteIfExists: the blob leaves the listing, if it is there.
DeleteIfExists(bs, object) == SelectSeq(bs, LAMBDA b : b.name # object)

\* RemoveCall without the test of the connection.
RemoveCallUnchecked(uri, failed) ==
    LET name_parsing_result == ParseAzureUri(uri)
        names == name_parsing_result.value
        quit(err, nreq) == [ret |-> kFailure, err |-> err, blobs |-> blobs, nreq |-> nreq]
    IN  IF uri.null THEN quit(<<"Error passing null pointer to driver_remove">>, 0)
        ELSE IF ~name_parsing_result.ok
        THEN quit(<<"Error parsing URL", name_parsing_result.reason>>, 0)
        ELSE IF failed THEN quit(<<"Error while deleting blob.", "transport">>, 1)
        ELSE [ret |-> kSuccess, err |-> <<>>,
              blobs |-> DeleteIfExists(blobs, names.object), nreq |-> 1]

\* driver_remove: [ret, err, blobs, nreq].  The object is taken for the name of one
\* blob, whatever characters it holds; failed is whether the request throws.
RemoveCall(uri, failed) ==
    LET name_parsing_result == ParseAzureUri(uri)
        names == name_parsing_result.value
        quit(err, nreq) == [ret |-> kFailure, err |-> err, blobs |-> blobs, nreq |-> nreq]
    IN  IF bIsConnected = kFalse THEN quit(<<"Error: driver not connected.">>, 0)
        ELSE IF uri.null THEN quit(<<"Error passing null pointer to driver_remove">>, 0)
        ELSE IF ~name_parsing_result.ok
        THEN quit(<<"Error parsing URL", name_parsing_result.reason>>, 0)
        ELSE IF failed THEN quit(<<"Error while deleting blob.", "transport">>, 1)
        ELSE [ret |-> kSuccess, err |-> <<>>,
              blobs |-> DeleteIfExists(blobs, names.object), nreq |-> 1]

driver_remove(uri, failed) ==
    \E r \in {RemoveCall(uri, failed)} :
        /\ blobs' = r.blobs
        /\ lastError' = IF r.err = <<>> THEN lastError ELSE r.err
        /\ last' = [op |-> "remove", uri |-> uri, failed |-> failed /\ r.nreq > 0,
                    ret |-> r.ret, err |-> r.err]
        /\ UNCHANGED <<bIsConnected, active_reader_handles, active_writer_handles>>

\* long long free_space: 5 TiB in the build, the largest offset of the model here.
free_space == max_val

\* driver_rmdir, driver_mkdir and driver_diskFreeSpace: [ret, err].  The null test
\* comes first, then assert(driver_isConnected()), then the value is returned.
DirectoryCall(null_text, uri, value) ==
    IF uri.null THEN [ret |-> kFailure, err |-> <<null_text>>, asserts |-> FALSE]
    ELSE [ret |-> value, err |-> <<>>, asserts |-> TRUE]

DirectoryOp(op, null_text, uri, value) ==
    \E r \in {DirectoryCall(null_text, uri, value)} :
        \E aborted \in {a \in AssertConnected : a => r.asserts} :
            /\ lastError' = IF r.err = <<>> THEN lastError ELSE r.err
            /\ last' = [op |-> op, uri |-> uri, ret |-> r.ret, err |-> r.err,
                        aborted |-> aborted]
            /\ UNCHANGED <<bIsConnected, blobs, active_reader_handles,
                           active_writer_handles>>

driver_rmdir(uri) ==
    DirectoryOp("rmdir", "Error passing null pointer to driver_rmdir", uri, kSuccess)

driver_mkdir(uri) ==
    DirectoryOp("mkdir", "Error passing null pointer to driver_mkdir", uri, kSuccess)

driver_diskFreeSpace(uri) ==
    DirectoryOp("diskFreeSpace", "Error passing null pointer to driver_diskFreeSpace", uri,
                free_space)

(***************************************************************************)
(* Copies between the container and a local file.                          *)
(***************************************************************************)
\* Modelled size of the relay buffer of driver_copyToLocal (10 MiB in the build).
DlLimit == 2
\* Modelled size of the largest block of driver_copyFromLocal (100 MiB in the build).
MaxBlock == 2

\* The loop of driver_copyToLocal from the state (offset, part, file), file the
\* local stream [good, bytes]: [offset, file, nreq, thrown, hung].  Every round
\* downloads up to DlLimit bytes of the current part; a round that receives nothing
\* and does not end the part leaves the loop where it was, for ever.
RECURSIVE CopyParts(_, _, _, _, _, _, _, _)
CopyParts(bs, reader, offset, part, file, writable, nreq, failAt) ==
    LET cumul_sizes == reader.cumulativeSize
        curr_offset == IF part = 0 THEN offset
                       ELSE offset - cumul_sizes[part] + reader.commonHeaderLength
        dl == DownloadRange(BlobBytes(bs, reader.filenames[part + 1]), curr_offset, DlLimit)
        read == Len(dl)
        written == IF read > 0 /\ ~writable THEN [good |-> FALSE, bytes |-> file.bytes]
                   ELSE [good |-> TRUE, bytes |-> file.bytes \o dl]
        next_part == IF offset + read = cumul_sizes[part + 1] THEN part + 1 ELSE part
        state(thrown, hung) ==
            [offset |-> offset, file |-> file, nreq |-> nreq, thrown |-> thrown,
             hung |-> hung]
    IN  IF ~(file.good /\ offset < reader.total_size /\ part < Len(reader.filenames))
        THEN state(FALSE, FALSE)
        ELSE IF failAt = nreq + 1 THEN [state(TRUE, FALSE) EXCEPT !.nreq = nreq + 1]
        ELSE IF read = 0 /\ next_part = part THEN [state(FALSE, TRUE) EXCEPT !.nreq = nreq + 1]
        ELSE CopyParts(bs, reader, offset + read, next_part, written, writable, nreq + 1,
                       failAt)

\* How the local file of a copy behaves: it opens and takes writes (or gives its
\* bytes), it does not open, or it opens and the first transfer of bytes fails.
Locals == {"ok", "noopen", "nodata"}

\* driver_copyToLocal: [ret, err, file: the bytes of the local file, nreq, hung].
CopyToLocalCall(src, dest_null, local, failAt) ==
    LET name_parsing_result == ParseAzureUri(src)
        parsed_names == name_parsing_result.value
        reader_ptr_res == MakeReaderPtr(blobs, parsed_names.object, failAt)
        reader == reader_ptr_res.value
        end == CopyParts(blobs, reader, 0, 0, [good |-> TRUE, bytes |-> <<>>],
                         local = "ok", reader_ptr_res.nreq, failAt)
        quit(err, nreq) ==
            [ret |-> kFailure, err |-> err, file |-> <<>>, nreq |-> nreq, hung |-> FALSE]
    IN  IF bIsConnected = kFalse THEN quit(<<"Error: driver not connected.">>, 0)
        ELSE IF src.null
        THEN quit(<<"Error passing null pointer to driver_copyToLocal">>, 0)
        ELSE IF dest_null
        THEN quit(<<"Error passing null pointer to driver_copyToLocal">>, 0)
        ELSE IF ~name_parsing_result.ok
        THEN quit(<<"Error parsing URL", name_parsing_result.reason>>, 0)
        ELSE IF ~reader_ptr_res.ok
        THEN quit(<<"Error while opening remote file.", reader_ptr_res.reason>>,
                  reader_ptr_res.nreq)
        ELSE IF local = "noopen"
        THEN quit(<<"Failed to open local file for writing: ">>, reader_ptr_res.nreq)
        ELSE IF end.hung
        THEN [ret |-> kFailure, err |-> <<>>, file |-> end.file.bytes, nreq |-> end.nreq,
              hung |-> TRUE]
        ELSE IF end.thrown
        THEN [ret |-> kFailure, err |-> <<"Error while reading from remote file.",
                                          "transport">>,
              file |-> end.file.bytes, nreq |-> end.nreq, hung |-> FALSE]
        ELSE IF ~end.file.good
        THEN [ret |-> kFailure,
              err |-> <<"Error while copying data to local file. Writing on local file failed.">>,
              file |-> end.file.bytes, nreq |-> end.nreq, hung |-> FALSE]
        ELSE IF end.offset < reader.total_size
        THEN [ret |-> kFailure,
              err |-> <<"Error while copying data to local file. Data is missing.">>,
              file |-> end.file.bytes, nreq |-> end.nreq, hung |-> FALSE]
        ELSE [ret |-> kSuccess, err |-> <<>>, file |-> end.file.bytes, nreq |-> end.nreq,
              hung |-> FALSE]

driver_copyToLocal(src, dest_null, local, failAt) ==
    \E r \in {CopyToLocalCall(src, dest_null, local, failAt)} :
        /\ lastError' = IF r.err = <<>> THEN lastError ELSE r.err
        /\ last' = [op |-> "copyToLocal", uri |-> src, dest_null |-> dest_null,
                    local |-> local, failAt |-> FailedRequest(failAt, r.nreq),
                    ret |-> r.ret, err |-> r.err, file |-> r.file, hung |-> r.hung]
        /\ UNCHANGED <<bIsConnected, blobs, active_reader_handles, active_writer_handles>>

\* The blocks driver_copyFromLocal reads from a local file of these bytes.
RECURSIVE Blocks(_)
Blocks(bytes) ==
    IF bytes = <<>> THEN <<>>
    ELSE <<Take(bytes, MaxBlock)>> \o Blocks(Drop(bytes, MaxBlock))

\* AppendBlock of the first n blocks, in order.
RECURSIVE AppendBlocks(_, _, _, _)
AppendBlocks(bs, object, blocks, n) ==
    IF n = 0 THEN bs
    ELSE AppendBlock(AppendBlocks(bs, object, blocks, n - 1), object, blocks[n])

\* driver_copyFromLocal: [ret, err, blobs, nreq].  bytes is what the local file
\* holds; request 1 creates the blob, request k + 1 appends block k.
CopyFromLocalCall(src_null, dest, local, bytes, failAt) ==
    LET name_parsing_result == ParseAzureUri(dest)
        parsed_names == name_parsing_result.value
        writer_ptr_res == MakeWriterPtr(blobs, parsed_names.object, "kWrite", failAt = 1)
        blocks == Blocks(bytes)
        quit(err, bs, nreq) == [ret |-> kFailure, err |-> err, blobs |-> bs, nreq |-> nreq]
    IN  IF bIsConnected = kFalse THEN quit(<<"Error: driver not connected.">>, blobs, 0)
        ELSE IF src_null \/ dest.null
        THEN quit(<<"Error passing null pointers as arguments to copyFromLocal">>, blobs, 0)
        ELSE IF ~name_parsing_result.ok
        THEN quit(<<"Error parsing URL", name_parsing_result.reason>>, blobs, 0)
        ELSE IF local = "noopen" THEN quit(<<"Failed to open local file: ">>, blobs, 0)
        ELSE IF ~writer_ptr_res.ok
        THEN quit(<<"Error while creating writer stream to remote storage.",
                    writer_ptr_res.reason>>, blobs, 1)
        ELSE IF local = "nodata" /\ bytes # <<>>
        THEN quit(<<"Error while reading from local file.">>, writer_ptr_res.blobs, 1)
        ELSE IF failAt \in 2 .. (1 + Len(blocks))
        THEN quit(<<"Error while writing to remote storage due to storage error.",
                    "transport">>,
                  AppendBlocks(writer_ptr_res.blobs, parsed_names.object, blocks,
                               failAt - 2),
                  failAt)
        ELSE [ret |-> kSuccess, err |-> <<>>,
              blobs |-> AppendBlocks(writer_ptr_res.blobs, parsed_names.object, blocks,
                                     Len(blocks)),
              nreq |-> 1 + Len(blocks)]

driver_copyFromLocal(src_null, dest, local, bytes, failAt) ==
    \E r \in {CopyFromLocalCall(src_null, dest, local, bytes, failAt)} :
        /\ blobs' = r.blobs
        /\ lastError' = IF r.err = <<>> THEN lastError ELSE r.err
        /\ last' = [op |-> "copyFromLocal", src_null |-> src_null, uri |-> dest,
                    local |-> local, bytes |-> bytes,
                    failAt |-> FailedRequest(failAt, r.nreq), ret |-> r.ret, err |-> r.err]
        /\ UNCHANGED <<bIsConnected, active_reader_handles, active_writer_handles>>

(***************************************************************************)
(* The calls of the host.  The host makes a call once the one before has   *)
(* returned; it keeps one stream open at a time.                           *)
(***************************************************************************)
\* The objects asked for: an exact name, patterns matching two blobs, all of them,
\* one, and a name and a pattern nothing matches.
Objects == { <<"a", "0">>, <<"a", "?">>, <<"?", "?">>, <<"b", "*">>, <<"c">>, <<"c", "*">> }

NullUri == [null |-> TRUE, scheme |-> "", service |-> "UNKNOWN", object |-> <<>>]

Uris ==
    { Uri(o) : o \in Objects }
    \cup { NullUri,
           [null |-> FALSE, scheme |-> "ftp", service |-> "UNKNOWN", object |-> <<"a", "0">>],
           [null |-> FALSE, scheme |-> "https", service |-> "SHARE", object |-> <<"a", "0">>] }

Handles == {nullptr} \cup Pointers

\* The threads of the host, and the state in which none of them is in a call.
Threads == {"t1", "t2"}

\* A thread outside a call.  mine: the handles it opened and has not closed; raced:
\* whether, during one of its calls, another thread changed the registry between the
\* start of the find and the use of the iterator found.
IdleThread ==
    [pc |-> "idle", mine |-> {}, raced |-> FALSE, dangling |-> FALSE, op |-> "none",
     h |-> nullptr, arg |-> 0, it |-> 0, end |-> 0, ret |-> 0, resolved |-> nullptr,
     cursor |-> 0]

Idle == [t \in Threads |-> IdleThread]

\* The host keeps the handle of a stream it closed: "closed" from the close that
\* succeeded until an open returns the same address, "reissued" from then on.
NoneStale == [p \in Pointers |-> "no"]

AfterClose(h, ret) ==
    IF ret = kCloseSuccess /\ h \in Pointers THEN [stale EXCEPT ![h] = "closed"] ELSE stale

AfterOpen(ret) ==
    IF ret \in Pointers /\ stale[ret] = "closed" THEN [stale EXCEPT ![ret] = "reissued"]
    ELSE stale

Whences == {"beg", "cur", "end", "other"}

\* The ordinals at which a request of a call may fail; 0: none does.
FailPoints == 0 .. (1 + MaxPartLen + Len(Names))

\* The total size of the reader at address h.
TotalOf(h) == active_reader_handles[FindReader(h)].total_size

\* The number of parts of the reader at address h.
PartsOf(h) == Len(active_reader_handles[FindReader(h)].filenames)

\* The caller takes the result of the call: the record of the call is dropped.
Return ==
    /\ last.op # "none"
    /\ ~Aborted
    /\ ~Hung
    /\ last' = [op |-> "none"]
    /\ UNCHANGED <<bIsConnected, blobs, active_reader_handles, active_writer_handles, lastError>>
    /\ UNCHANGED host

Returned == last.op = "none"

Connect == Returned /\ (\E ok \in BOOLEAN : driver_connect(ok)) /\ UNCHANGED host

Disconnect == Returned /\ driver_disconnect /\ UNCHANGED host

Size ==
    /\ Returned
    /\ active_reader_handles = <<>>
    /\ \E uri \in Uris, failAt \in FailPoints : driver_getFileSize(uri, failAt)
    /\ UNCHANGED host

\* Reading mode with every object and failure; a mode the driver does not know.
OpenCalls ==
    { <<uri, "r", failAt, <<>>>> : uri \in Uris, failAt \in FailPoints }
    \cup { <<Uri(<<"a", "0">>), "x", 0, junk>> : junk \in {<<>>, <<"?">>} }

Open ==
    /\ Returned
    /\ active_reader_handles = <<>>
    /\ \E c \in OpenCalls : driver_fopen(c[1], c[2], 1, c[3], c[4])
    /\ UNCHANGED host

(***************************************************************************)
(* Spec: every container of the bounds; the host stops at the first call   *)
(* that reports an error, seeks from the start to every offset up to one   *)
(* past the end and reads every length up to one past the end, with a      *)
(* failure at every request.                                               *)
(***************************************************************************)
Init ==
    /\ bIsConnected = kFalse
    /\ blobs \in Stores
    /\ active_reader_handles = <<>>
    /\ active_writer_handles = <<>>
    /\ lastError = <<>>
    /\ last = [op |-> "none"]
    /\ stale = NoneStale
    /\ threads = Idle

NoError == lastError = <<>>

Seek ==
    /\ Returned
    /\ \E h \in LiveAddresses :
          \E offset \in 0 .. (TotalOf(h) + 1) : driver_fseek(h, offset, "beg")
    /\ UNCHANGED host

Read ==
    /\ Returned
    /\ \E h \in LiveAddresses :
          \E count \in 0 .. (TotalOf(h) + 1), failAt \in 0 .. PartsOf(h) :
              driver_fread(FALSE, 1, count, h, failAt)
    /\ UNCHANGED host

Next ==
    \/ Return
    \/ NoError /\ Connect
    \/ NoError /\ Disconnect
    \/ NoError /\ Size
    \/ NoError /\ Open
    \/ NoError /\ Seek
    \/ NoError /\ Read

Spec == Init /\ [][Next]_vars

(***************************************************************************)
(* SpecArith: the containers whose blobs all hold the same bytes count and *)
(* the same first line; every handle, origin, offset, unit and count of    *)
(* the modelled width.                                                     *)
(***************************************************************************)
ArithStores ==
    UNION { { MkStore(L, len, [i \in 1 .. (Len(Names) - 1) |-> [len |-> len, kind |-> "same"]]) :
                len \in L .. MaxPartLen } :
            L \in 0 .. MaxHeaderLen }

InitArith ==
    /\ bIsConnected = kFalse
    /\ blobs \in ArithStores
    /\ active_reader_handles = <<>>
    /\ active_writer_handles = <<>>
    /\ lastError = <<>>
    /\ last = [op |-> "none"]
    /\ stale = NoneStale
    /\ threads = Idle

SeekArith ==
    /\ Returned
    /\ \E h \in Handles, offset \in Int64, whence \in Whences : driver_fseek(h, offset, whence)
    /\ UNCHANGED host

ReadCalls ==
    { <<FALSE, size, count, h, failAt>> :
        size \in 1 .. MaxUnit, count \in 0 .. max_val, h \in LiveAddresses,
        failAt \in 0 .. 1 }
    \cup { <<FALSE, 1, 1, h, 0>> : h \in Handles }
    \cup { <<TRUE, 1, 1, h, 0>> : h \in LiveAddresses }
    \cup { <<FALSE, 0, count, h, 0>> : count \in 0 .. 1, h \in LiveAddresses }

ReadArith ==
    /\ Returned
    /\ \E c \in ReadCalls : driver_fread(c[1], c[2], c[3], c[4], c[5])
    /\ UNCHANGED host

NextArith ==
    \/ Return
    \/ NoError /\ Connect
    \/ NoError /\ Disconnect
    \/ NoError /\ Open
    \/ NoError /\ SeekArith
    \/ NoError /\ ReadArith

SpecArith == InitArith /\ [][NextArith]_vars

(***************************************************************************)
(* SpecRegistry: one container; the host keeps as many streams open as     *)
(* there are addresses, readers and writers, and gives every call every    *)
(* handle it ever held, the closed ones included.  A new stream may get    *)
(* the address of a closed one.  The host stops at the first call that     *)
(* reports an error: such a call changes nothing but lastError, which no   *)
(* handler reads.                                                          *)
(***************************************************************************)
RegistryStore == MkStore(1, 2, [i \in 1 .. (Len(Names) - 1) |-> [len |-> 2, kind |-> "same"]])

\* The blob the writers of the host write, which the container does not hold at first.
NewObject == <<"c">>

\* The most bytes the host appends to a blob.
MaxAppend == 1

RegistryOpens ==
    { <<Uri(<<"a", "0">>), "r">>, <<Uri(<<"a", "?">>), "r">>, <<Uri(NewObject), "w">> }

\* A negative offset, an overflow and a success for every origin, and an unknown origin.
RegistrySeeks ==
    { <<-1, "beg">>, <<1, "beg">>, <<min_val, "cur">>, <<max_val, "cur">>,
      <<min_val, "end">>, <<0, "end">>, <<max_val, "end">>, <<0, "other">> }

InitRegistry ==
    /\ bIsConnected = kFalse
    /\ blobs = RegistryStore
    /\ active_reader_handles = <<>>
    /\ active_writer_handles = <<>>
    /\ lastError = <<>>
    /\ last = [op |-> "none"]
    /\ stale = NoneStale
    /\ threads = Idle

OpenRegistry ==
    /\ Returned
    /\ \E p \in Pointers \ LiveStreams, c \in RegistryOpens :
          /\ driver_fopen(c[1], c[2], p, 0, <<>>)
          /\ stale' = AfterOpen(FopenCall(c[1], c[2], p, 0, <<>>).ret)
    /\ UNCHANGED threads

\* The host keeps the handle of a stream it closed.
CloseRegistry ==
    /\ Returned
    /\ bIsConnected # kFalse
    /\ \E h \in Handles :
          /\ driver_fclose(h)
          /\ stale' = AfterClose(h, FcloseCall(h).ret)
    /\ UNCHANGED threads

SeekRegistry ==
    /\ Returned
    /\ \E h \in Handles, c \in RegistrySeeks : driver_fseek(h, c[1], c[2])
    /\ UNCHANGED host

ReadRegistry ==
    /\ Returned
    /\ \E h \in Handles : driver_fread(FALSE, 1, 2, h, 0)
    /\ UNCHANGED host

WriteRegistry ==
    /\ Returned
    /\ \E h \in Handles :
          /\ FindWriter(h) # 0 =>
                Len(BlobBytes(blobs, active_writer_handles[FindWriter(h)].filename)) < MaxAppend
          /\ driver_fwrite(FALSE, <<7>>, 1, 1, h, FALSE)
    /\ UNCHANGED host

FlushRegistry ==
    /\ Returned
    /\ \E h \in Handles : driver_fflush(h)
    /\ UNCHANGED host

NextRegistry ==
    \/ Return
    \/ NoError /\ Connect
    \/ NoError /\ Disconnect
    \/ NoError /\ OpenRegistry
    \/ NoError /\ CloseRegistry
    \/ NoError /\ SeekRegistry
    \/ NoError /\ ReadRegistry
    \/ NoError /\ WriteRegistry
    \/ NoError /\ FlushRegistry

SpecRegistry == InitRegistry /\ [][NextRegistry]_vars

(***************************************************************************)
(* SpecWriter: the container of SpecRegistry; the host opens writers, in   *)
(* append mode on a blob that exists, by name, by a pattern that matches   *)
(* it alone and by a pattern that matches two others, and on a new one,    *)
(* and in write mode, and writes buffers of one and two bytes through      *)
(* every handle, every request failing or not.                             *)
(***************************************************************************)
\* The blob of the container the writers append to.
OldObject == <<"b", "2">>

\* The most bytes the host appends to a blob.
MaxWritten == 3

\* [uri, mode, failAt].
WriterOpens ==
    { <<Uri(o), "a", f>> : o \in {OldObject, <<"b", "*">>, <<"a", "?">>, NewObject},
                           f \in 0 .. 2 }
    \cup { <<Uri(<<"z", "*">>), "a", 0>>, <<Uri(OldObject), "w", 0>>, <<Uri(OldObject), "w", 1>> }

\* [ptr_null, buffer, size, count]: a null buffer, a unit of 0 bytes, no item, one
\* byte, two bytes as one item and as two.
WriterBuffers ==
    { <<TRUE, <<>>, 1, 1>>, <<FALSE, <<7>>, 0, 1>>, <<FALSE, <<7>>, 1, 0>>,
      <<FALSE, <<7>>, 1, 1>>, <<FALSE, <<8, 9>>, 2, 1>>, <<FALSE, <<8, 9>>, 1, 2>> }

\* The host writes bytes more through h while the blob of its writer stays within
\* MaxWritten bytes of the first length of OldObject.
Room(h, bytes) ==
    FindWriter(h) # 0 =>
        LET name == active_writer_handles[FindWriter(h)].filename
        IN  BlobIndex(blobs, name) # 0
            /\ Len(BlobBytes(blobs, name)) + bytes
                  <= Len(BlobBytes(RegistryStore, OldObject)) + MaxWritten

OpenWriter ==
    /\ Returned
    /\ \E p \in Pointers \ LiveStreams, c \in WriterOpens :
          driver_fopen(c[1], c[2], p, c[3], <<>>)
    /\ UNCHANGED host

WriteWriter ==
    /\ Returned
    /\ \E h \in Handles, c \in WriterBuffers, failed \in BOOLEAN :
          /\ Room(h, c[3] * c[4])
          /\ driver_fwrite(c[1], c[2], c[3], c[4], h, failed)
    /\ UNCHANGED host

NextWriter ==
    \/ Return
    \/ NoError /\ Connect
    \/ NoError /\ OpenWriter
    \/ NoError /\ WriteWriter

SpecWriter == InitRegistry /\ [][NextWriter]_vars

(***************************************************************************)
(* SpecProduct: the container of SpecRegistry; the host opens a reader and *)
(* a writer and reads and writes through every handle with every unit and  *)
(* every count a size_t holds, 0 apart.  The buffer of a write holds as     *)
(* many bytes as the host says, or as many as an offset counts.            *)
(***************************************************************************)
ProductOpens == { <<Uri(<<"a", "0">>), "r">>, <<Uri(NewObject), "w">> }

ProductBuffer(size, count) == [i \in 1 .. Min(size * count, max_val) |-> 7]

OpenProduct ==
    /\ Returned
    /\ \E p \in Pointers \ LiveStreams, c \in ProductOpens :
          driver_fopen(c[1], c[2], p, 0, <<>>)
    /\ UNCHANGED host

ReadProduct ==
    /\ Returned
    /\ \E h \in Handles, size \in 1 .. size_max, count \in 1 .. size_max :
          driver_fread(FALSE, size, count, h, 0)
    /\ UNCHANGED host

\* The host writes once to the blob of a writer.
WriteProduct ==
    /\ Returned
    /\ \E h \in Handles, size \in 1 .. size_max, count \in 1 .. size_max :
          /\ FindWriter(h) # 0 =>
                BlobBytes(blobs, active_writer_handles[FindWriter(h)].filename) = <<>>
          /\ driver_fwrite(FALSE, ProductBuffer(size, count), size, count, h, FALSE)
    /\ UNCHANGED host

NextProduct ==
    \/ Return
    \/ NoError /\ Connect
    \/ NoError /\ OpenProduct
    \/ NoError /\ ReadProduct
    \/ NoError /\ WriteProduct

SpecProduct == InitRegistry /\ [][NextProduct]_vars

(***************************************************************************)
(* SpecCopy: every container of Spec; the host copies every object to a    *)
(* local file that opens and takes writes or does not, every request       *)
(* failing or not.                                                         *)
(***************************************************************************)
CopyStore ==
    /\ Returned
    /\ \E uri \in Uris, local \in Locals, failAt \in FailPoints :
          driver_copyToLocal(uri, FALSE, local, failAt)
    /\ UNCHANGED host

NextCopy ==
    \/ Return
    \/ NoError /\ Connect
    \/ NoError /\ CopyStore

SpecCopy == Init /\ [][NextCopy]_vars

(***************************************************************************)
(* SpecThreads: two threads of the host call the driver at once, each on   *)
(* the one handle it opened.  The registry has no lock: std::find_if walks *)
(* the vector one element at a time, from begin() to the end() taken when  *)
(* it was called, while the other thread may push a stream or swap the     *)
(* last one into a place and pop.  An iterator is a position in the        *)
(* vector's buffer; a push may move the buffer (moved), which leaves the   *)
(* iterators of the other thread dangling.  Reading through a dangling     *)
(* iterator or past the streams is undefined: the call crashes, finds      *)
(* nothing, or goes on with what the position holds.                       *)
(***************************************************************************)
Alive == \A t \in Threads : threads[t].pc # "crashed"

InFind(u) == threads[u].pc \in {"find", "found"}

\* The other threads, after thread t changed the registry.
Disturbed(t, moved) ==
    [u \in Threads |->
        IF u # t /\ InFind(u)
        THEN [threads[u] EXCEPT !.raced = TRUE, !.dangling = @ \/ moved]
        ELSE threads[u]]

\* The lambda of FindHandle: h == act_h_ptr.get(), accepting every stream.
MatchesAnyStream(h, stream) == TRUE

\* The lambda of FindHandle: h == act_h_ptr.get().
Matches(h, stream) == h = stream.id

ConnectThreads ==
    /\ bIsConnected = kFalse
    /\ driver_connect(TRUE)
    /\ UNCHANGED host

\* driver_fopen, whose requests are made before the push: the push is the one step
\* of it that touches the registry.
OpenThread(t) ==
    /\ Alive
    /\ bIsConnected # kFalse
    /\ threads[t].pc = "idle"
    /\ threads[t].mine = {}
    /\ \E p \in Pointers \ LiveStreams, moved \in BOOLEAN :
          /\ driver_fopen(Uri(<<"a", "0">>), "r", p, 0, <<>>)
          /\ threads' = [Disturbed(t, moved) EXCEPT ![t].mine = {p}]
    /\ UNCHANGED stale

\* driver_fseek(h, 1, beg) or driver_fclose(h) enters FindReader.
BeginCall(t) ==
    /\ Alive
    /\ bIsConnected # kFalse
    /\ threads[t].pc = "idle"
    /\ \E h \in threads[t].mine, op \in {"fseek", "fclose"} :
          threads' = [threads EXCEPT ![t] =
                        [@ EXCEPT !.pc = "find", !.op = op, !.h = h, !.arg = 1, !.it = 1,
                                  !.end = Len(active_reader_handles) + 1]]
    /\ UNCHANGED <<bIsConnected, blobs, active_reader_handles, active_writer_handles,
                   lastError, last, stale>>

\* The cursor of the stream at address h in the registry given, -1 when none is there.
CursorIn(h, readers) ==
    IF FindHandle(h, readers) = 0 THEN -1 ELSE readers[FindHandle(h, readers)].offset

\* The call of thread t ends: ret, the stream it worked on, the error logged, and the
\* cursor its handle has as it ends.
Finish(t, ret, resolved, err, readers, ts) ==
    /\ threads' = [ts EXCEPT ![t] = [@ EXCEPT !.pc = "done", !.ret = ret,
                                                !.resolved = resolved,
                                                !.cursor = CursorIn(threads[t].h, readers)]]
    /\ active_reader_handles' = readers
    /\ lastError' = IF err = <<>> THEN lastError ELSE err
    /\ UNCHANGED <<bIsConnected, blobs, active_writer_handles, last, stale>>

Crash(t) ==
    /\ threads' = [threads EXCEPT ![t].pc = "crashed"]
    /\ UNCHANGED <<bIsConnected, blobs, active_reader_handles, active_writer_handles,
                   lastError, last, stale>>

NotFound(t) ==
    IF threads[t].op = "fclose"
    THEN Finish(t, kCloseEOF, nullptr, <<"Cannot identify stream.">>,
                active_reader_handles, threads)
    ELSE Finish(t, kBadSize, nullptr, <<"Cannot identify stream as a reader stream.">>,
                active_reader_handles, threads)

\* One turn of the loop of std::find_if.
FindStep(t) ==
    /\ Alive
    /\ threads[t].pc = "find"
    /\ LET it == threads[t].it
           stay == UNCHANGED <<bIsConnected, blobs, active_reader_handles,
                               active_writer_handles, lastError, last, stale>>
           returns == threads' = [threads EXCEPT ![t].pc = "found"] /\ stay
           advances == threads' = [threads EXCEPT ![t].it = it + 1] /\ stay
       IN  IF it = threads[t].end THEN returns
           ELSE IF threads[t].dangling \/ it > Len(active_reader_handles)
           THEN Crash(t) \/ advances
           ELSE IF Matches(threads[t].h, active_reader_handles[it]) THEN returns
           ELSE advances

\* The caller compares the iterator with handles.end() and works on the stream at it.
Apply(t) ==
    /\ Alive
    /\ threads[t].pc = "found"
    /\ LET it == threads[t].it
           stream == active_reader_handles[it]
           r == SeekReader(stream, threads[t].arg, "beg")
           works ==
               IF threads[t].op = "fclose"
               THEN Finish(t, kCloseSuccess, stream.id, <<>>,
                           EraseRemove(it, active_reader_handles), Disturbed(t, FALSE))
               ELSE Finish(t, 0, stream.id, <<>>,
                           [active_reader_handles EXCEPT ![it].offset = r.offset], threads)
       IN  IF threads[t].dangling THEN Crash(t) \/ NotFound(t)
           ELSE IF it = Len(active_reader_handles) + 1 THEN NotFound(t)
           ELSE IF it > Len(active_reader_handles) THEN Crash(t) \/ NotFound(t)
           ELSE works

\* The call returns to the thread, which forgets a handle it closed.
ReturnThread(t) ==
    /\ Alive
    /\ threads[t].pc = "done"
    /\ threads' = [threads EXCEPT ![t] =
                     [IdleThread EXCEPT
                        !.raced = threads[t].raced,
                        !.mine = IF threads[t].op = "fclose" /\ threads[t].ret = kCloseSuccess
                                 THEN threads[t].mine \ {threads[t].h}
                                 ELSE threads[t].mine]]
    /\ UNCHANGED <<bIsConnected, blobs, active_reader_handles, active_writer_handles,
                   lastError, last, stale>>

NextThreads ==
    \/ ConnectThreads
    \/ \E t \in Threads : OpenThread(t)
    \/ \E t \in Threads : BeginCall(t)
    \/ \E t \in Threads : FindStep(t)
    \/ \E t \in Threads : Apply(t)
    \/ \E t \in Threads : ReturnThread(t)

SpecThreads == InitRegistry /\ [][NextThreads]_vars

(***************************************************************************)
(* SpecSurface: the container of SpecRegistry; the host makes every call   *)
(* of the interface, connected or not, with arguments that take every      *)
(* branch of every handler.  It goes on after a call that reported one of  *)
(* a few errors and stops at any other; it keeps one stream open at a time *)
(* and removes no blob a stream is open on.                                *)
(***************************************************************************)
\* The errors after which the host goes on.
Tolerated ==
    { <<>>, <<"Error: driver not connected.">>, <<"Cannot identify stream.">> }

Going == lastError \in Tolerated

EmptyUri == [null |-> FALSE, scheme |-> "", service |-> "UNKNOWN", object |-> <<>>]

FtpUri(object) == [null |-> FALSE, scheme |-> "ftp", service |-> "UNKNOWN", object |-> object]

ShareUri(object) ==
    [null |-> FALSE, scheme |-> "https", service |-> "SHARE", object |-> object]

\* Locators that fail before any request: null, not parsed, of a file share.
BadUris == {NullUri, FtpUri(<<"a", "0">>), ShareUri(<<"a", "0">>)}

\* [uri, failAt]: an exact object, a pattern of two parts with a failure at each of
\* its three requests, an absent object, a pattern without a match.
SurfaceReads ==
    { <<Uri(<<"a", "0">>), f>> : f \in 0 .. 1 }
    \cup { <<Uri(<<"a", "?">>), f>> : f \in 0 .. 3 }
    \cup { <<Uri(NewObject), 0>>, <<Uri(<<"c", "*">>), 0>> }
    \cup { <<u, 0>> : u \in BadUris }

\* [uri, mode, failAt, junk].
SurfaceOpens ==
    { <<c[1], "r", c[2], <<>>>> : c \in SurfaceReads }
    \cup { <<Uri(NewObject), "w", f, <<>>>> : f \in 0 .. 1 }
    \cup { <<Uri(<<"b", "*">>), "a", f, <<>>>> : f \in 0 .. 2 }
    \cup { <<Uri(<<"c", "*">>), "a", 0, <<>>>> }
    \cup { <<Uri(<<"a", "0">>), "x", 0, junk>> : junk \in {<<>>, <<"?">>} }

\* A negative offset, a success, the end of the range, an overflow, an unknown origin.
SurfaceSeeks ==
    { <<-1, "beg">>, <<1, "beg">>, <<max_val, "beg">>, <<max_val, "cur">>, <<0, "other">> }

\* [ptr_null, size, count, failAt]: a null buffer, a unit of 0 bytes with and
\* without items, no item, one byte read with and without a failure, a product
\* that overflows.
SurfaceReadArgs ==
    { <<TRUE, 1, 1, 0>>, <<FALSE, 0, 0, 0>>, <<FALSE, 0, 1, 0>>, <<FALSE, 1, 0, 0>>,
      <<FALSE, 1, 1, 0>>, <<FALSE, 1, 1, 1>>, <<FALSE, MaxUnit, max_val, 0>> }

\* [ptr_null, buffer, size, count, failed].
SurfaceWriteArgs ==
    { <<TRUE, <<>>, 1, 1, FALSE>>, <<FALSE, <<7>>, 0, 0, FALSE>>, <<FALSE, <<7>>, 0, 1, FALSE>>,
      <<FALSE, <<7>>, 1, 0, FALSE>>, <<FALSE, <<7>>, 1, 1, FALSE>>, <<FALSE, <<7>>, 1, 1, TRUE>>,
      <<FALSE, <<7>>, MaxUnit, max_val, FALSE>> }

\* Locators of the existence queries: objects and patterns present and absent, a
\* container and a directory, and locators that are not parsed or not of a blob.
ExistUris ==
    { Uri(o) : o \in { <<"a", "0">>, <<"a", "?">>, NewObject, <<"c", "*">>, <<>>,
                       <<"d", "/">> } }
    \cup BadUris \cup { EmptyUri, FtpUri(<<"d", "/">>) }

\* The objects a stream of the host is open on.
OpenObjects ==
    UNION { {active_reader_handles[i].filenames[k] :
                k \in 1 .. Len(active_reader_handles[i].filenames)} :
            i \in 1 .. Len(active_reader_handles) }
    \cup { active_writer_handles[i].filename : i \in 1 .. Len(active_writer_handles) }

\* [src, dest_null, local, failAt]
SurfaceDownloads ==
    { <<Uri(<<"a", "?">>), FALSE, "ok", f>> : f \in 0 .. 5 }
    \cup { <<Uri(<<"a", "0">>), FALSE, l, 0>> : l \in Locals }
    \cup { <<Uri(<<"a", "0">>), TRUE, "ok", 0>>, <<Uri(NewObject), FALSE, "ok", 0>> }
    \cup { <<u, FALSE, "ok", 0>> : u \in BadUris }

\* [src_null, dest, local, bytes, failAt]
SurfaceUploads ==
    { <<FALSE, Uri(NewObject), "ok", <<7, 8, 9>>, f>> : f \in 0 .. 3 }
    \cup { <<FALSE, Uri(NewObject), l, <<7>>, 0>> : l \in Locals }
    \cup { <<TRUE, Uri(NewObject), "ok", <<7>>, 0>> }
    \cup { <<FALSE, u, "ok", <<7>>, 0>> : u \in BadUris }

GetLastError == Returned /\ driver_getlasterror /\ UNCHANGED host

IsConnected == Returned /\ driver_isConnected /\ UNCHANGED host

SizeSurface ==
    /\ Returned
    /\ \E c \in SurfaceReads : driver_getFileSize(c[1], c[2])
    /\ UNCHANGED host

OpenSurface ==
    /\ Returned
    /\ LiveStreams = {}
    /\ \E p \in Pointers, c \in SurfaceOpens : driver_fopen(c[1], c[2], p, c[3], c[4])
    /\ UNCHANGED host

\* An open that fails while a stream is open.
ReopenSurface ==
    /\ Returned
    /\ LiveStreams # {}
    /\ \E p \in Pointers \ LiveStreams, c \in SurfaceOpens :
          /\ FopenCall(c[1], c[2], p, c[3], c[4]).ret = nullptr
          /\ driver_fopen(c[1], c[2], p, c[3], c[4])
    /\ UNCHANGED host

CloseSurface ==
    /\ Returned
    /\ \E h \in Handles : driver_fclose(h)
    /\ UNCHANGED host

SeekSurface ==
    /\ Returned
    /\ \E h \in Handles, c \in SurfaceSeeks : driver_fseek(h, c[1], c[2])
    /\ UNCHANGED host

ReadSurface ==
    /\ Returned
    /\ \E h \in Handles, c \in SurfaceReadArgs : driver_fread(c[1], c[2], c[3], h, c[4])
    /\ UNCHANGED host

WriteSurface ==
    /\ Returned
    /\ \E h \in Handles, c \in SurfaceWriteArgs :
          /\ FindWriter(h) # 0 =>
                Len(BlobBytes(blobs, active_writer_handles[FindWriter(h)].filename)) < MaxAppend
          /\ driver_fwrite(c[1], c[2], c[3], c[4], h, c[5])
    /\ UNCHANGED host

FlushSurface ==
    /\ Returned
    /\ \E h \in Handles : driver_fflush(h)
    /\ UNCHANGED host

ExistSurface ==
    /\ Returned
    /\ \E uri \in ExistUris, failed \in BOOLEAN, level \in LogLevels, back \in BackOfEmpty :
          driver_exist(uri, failed, level, back)
    /\ UNCHANGED host

FileExistsSurface ==
    /\ Returned
    /\ \E uri \in ExistUris, failed \in BOOLEAN, level \in LogLevels :
          driver_fileExists(uri, failed, level)
    /\ UNCHANGED host

DirExistsSurface ==
    /\ Returned
    /\ \E uri \in ExistUris : driver_dirExists(uri)
    /\ UNCHANGED host

RemoveSurface ==
    /\ Returned
    /\ \E uri \in {Uri(NewObject), Uri(<<"c", "*">>)} \cup BadUris, failed \in BOOLEAN :
          /\ uri.object \notin OpenObjects
          /\ driver_remove(uri, failed)
    /\ UNCHANGED host

RmdirSurface ==
    /\ Returned
    /\ \E uri \in {Uri(<<"d", "/">>), NullUri} : driver_rmdir(uri)
    /\ UNCHANGED host

MkdirSurface ==
    /\ Returned
    /\ \E uri \in {Uri(<<"d", "/">>), NullUri} : driver_mkdir(uri)
    /\ UNCHANGED host

DiskFreeSpaceSurface ==
    /\ Returned
    /\ \E uri \in {Uri(<<"d", "/">>), NullUri} : driver_diskFreeSpace(uri)
    /\ UNCHANGED host

CopyToLocalSurface ==
    /\ Returned
    /\ \E c \in SurfaceDownloads : driver_copyToLocal(c[1], c[2], c[3], c[4])
    /\ UNCHANGED host

CopyFromLocalSurface ==
    /\ Returned
    /\ \E c \in SurfaceUploads :
          /\ c[2].object \notin OpenObjects
          /\ driver_copyFromLocal(c[1], c[2], c[3], c[4], c[5])
    /\ UNCHANGED host

NextSurface ==
    \/ Return
    \/ Going /\ Connect
    \/ Going /\ Disconnect
    \/ Going /\ GetLastError
    \/ Going /\ IsConnected
    \/ Going /\ SizeSurface
    \/ Going /\ OpenSurface
    \/ Going /\ ReopenSurface
    \/ Going /\ CloseSurface
    \/ Going /\ SeekSurface
    \/ Going /\ ReadSurface
    \/ Going /\ WriteSurface
    \/ Going /\ FlushSurface
    \/ Going /\ ExistSurface
    \/ Going /\ FileExistsSurface
    \/ Going /\ DirExistsSurface
    \/ Going /\ RemoveSurface
    \/ Going /\ RmdirSurface
    \/ Going /\ MkdirSurface
    \/ Going /\ DiskFreeSpaceSurface
    \/ Going /\ CopyToLocalSurface
    \/ Going /\ CopyFromLocalSurface

SpecSurface == InitRegistry /\ [][NextSurface]_vars

(***************************************************************************)
(* SpecPattern: every object pattern of at most MaxPatternLen characters   *)
(* among the five special ones, the backslash and a letter is given to     *)
(* FindPatternSpecialChar; the patterns it finds a special character in    *)
(* are then listed and the others are looked up as object names.           *)
(***************************************************************************)
MaxPatternLen == 3

PatternChars == special_chars \cup {"\\", "a"}

Patterns == UNION { [1 .. n -> PatternChars] : n \in 0 .. MaxPatternLen }

InitPattern ==
    /\ bIsConnected = kFalse
    /\ blobs = MkStore(1, 1, [i \in 1 .. (Len(Names) - 1) |-> [len |-> 1, kind |-> "same"]])
    /\ active_reader_handles = <<>>
    /\ active_writer_handles = <<>>
    /\ lastError = <<>>
    /\ last \in { [op |-> "pattern", pattern |-> pattern] : pattern \in Patterns }
    /\ stale = NoneStale
    /\ threads = Idle

\* The call of FindPatternSpecialChar the handlers begin with.
ParsePattern ==
    /\ last.op = "pattern"
    /\ last' = [op |-> "FindPatternSpecialChar", pattern |-> last.pattern,
                pattern_1st_sp_char_pos |-> FindPatternSpecialChar(last.pattern)]
    /\ UNCHANGED <<bIsConnected, blobs, active_reader_handles, active_writer_handles, lastError>>
    /\ UNCHANGED host

\* if (!pattern_1st_sp_char_pos): the pattern is the name of the one object asked for.
UseAsName ==
    /\ last.op = "FindPatternSpecialChar"
    /\ ~last.pattern_1st_sp_char_pos.has
    /\ last' = [op |-> "GetBlobClient", pattern |-> last.pattern, name |-> last.pattern]
    /\ UNCHANGED <<bIsConnected, blobs, active_reader_handles, active_writer_handles, lastError>>
    /\ UNCHANGED host

\* FilterList(bucket, pattern, *pattern_1st_sp_char_pos): the listing it asks for.
UseAsPattern ==
    /\ last.op = "FindPatternSpecialChar"
    /\ last.pattern_1st_sp_char_pos.has
    /\ last' = [op |-> "ListBlobs", pattern |-> last.pattern,
                Prefix |-> ListBlobsPrefix(last.pattern, last.pattern_1st_sp_char_pos.pos)]
    /\ UNCHANGED <<bIsConnected, blobs, active_reader_handles, active_writer_handles, lastError>>
    /\ UNCHANGED host

NextPattern ==
    \/ ParsePattern
    \/ UseAsName
    \/ UseAsPattern

SpecPattern == InitPattern /\ [][NextPattern]_vars

(***************************************************************************)
(* SpecSpan: containers of five blobs that a pattern matches together, the *)
(* first line of two bytes, each later blob beginning with that line as    *)
(* far as its length goes; the host asks for the size of the pattern,      *)
(* opens it, seeks from the start and reads every length, with a failure   *)
(* at every request of a read.                                             *)
(***************************************************************************)
SpanNames == << <<"a", "0">>, <<"a", "1">>, <<"a", "2">>, <<"a", "3">>, <<"a", "4">> >>

SpanHeaderLen == 2
MaxSpanLen == 4

\* The lengths of the five blobs: the last may be the longest.
SpanLens ==
    { lens \in [1 .. Len(SpanNames) -> 0 .. MaxSpanLen] :
         /\ lens[1] \in SpanHeaderLen .. (MaxSpanLen - 1)
         /\ \A i \in 2 .. (Len(SpanNames) - 1) : lens[i] < MaxSpanLen }

SpanStores ==
    { [i \in 1 .. Len(SpanNames) |->
          [name |-> SpanNames[i],
           bytes |-> PartBytes(i, SpanHeaderLen, "same", lens[i]),
           deleted |-> FALSE]] : lens \in SpanLens }

InitSpan ==
    /\ bIsConnected = kFalse
    /\ blobs \in SpanStores
    /\ active_reader_handles = <<>>
    /\ active_writer_handles = <<>>
    /\ lastError = <<>>
    /\ last = [op |-> "none"]
    /\ stale = NoneStale
    /\ threads = Idle

OpenSpan ==
    /\ Returned
    /\ active_reader_handles = <<>>
    /\ driver_fopen(Uri(<<"a", "?">>), "r", 1, 0, <<>>)
    /\ UNCHANGED host

SizeSpan ==
    /\ Returned
    /\ active_reader_handles = <<>>
    /\ driver_getFileSize(Uri(<<"a", "?">>), 0)
    /\ UNCHANGED host

NextSpan ==
    \/ Return
    \/ NoError /\ Connect
    \/ NoError /\ SizeSpan
    \/ NoError /\ OpenSpan
    \/ NoError /\ Seek
    \/ NoError /\ Read

SpecSpan == InitSpan /\ [][NextSpan]_vars

(***************************************************************************)
(* What the specification says of a logical file, stated from the bytes of *)
(* the container alone.                                                    *)
(***************************************************************************)
\* The reader the last call was given.
LastReader == active_reader_handles[FindReader(last.h)]

\* The raw bytes of the parts of a reader, in index order.
PartsOfReader(reader) ==
    [i \in 1 .. Len(reader.filenames) |-> BlobBytes(blobs, reader.filenames[i])]

\* The raw bytes of the non-deleted blobs an object pattern matches, in listing order.
MatchedParts(object) ==
    LET m == SelectSeq(blobs, LAMBDA b : ~b.deleted /\ GlobMatch(b.name, object))
    IN  [i \in 1 .. Len(m) |-> m[i].bytes]

\* No metacharacter of the object is left un-escaped.
ExactName(object) ==
    \A k \in 1 .. Len(object) :
        object[k] \in special_chars => (k > 1 /\ object[k - 1] = "\\")

\* The length of the first line of the first part, newline included; 0: no newline.
FirstLineLength(parts) == FirstNewline(parts[1])

SumRaw(parts) == SumLen(parts)

\* Every part begins with the first line of the first part.
AllShareHeader(parts) ==
    LET L == FirstLineLength(parts)
    IN  /\ L > 0
        /\ \A i \in 1 .. Len(parts) : Len(parts[i]) >= L /\ Take(parts[i], L) = Take(parts[1], L)

\* Some part holds, within the first L bytes, a byte that is not the first part's.
SomePartDiffers(parts) ==
    LET L == FirstLineLength(parts)
    IN  /\ L > 0
        /\ \E i \in 2 .. Len(parts) : \E j \in 1 .. Min(L, Len(parts[i])) :
              parts[i][j] # parts[1][j]

\* raw(part 0) followed, for each i > 0, by raw(part i) without its first L bytes.
ElidedStream(parts) ==
    Concat([i \in 1 .. Len(parts) |->
              IF i = 1 THEN parts[1] ELSE Drop(parts[i], FirstLineLength(parts))])

\* The plain concatenation of the raw parts.
PlainStream(parts) == Concat(parts)

\* The bytes [o, o + n) of a stream.
Slice(stream, o, n) == SubSeq(stream, o + 1, o + n)

\* The last call is a read, of at least one byte asked, that returned bytes.
ReadSucceeded == last.op = "fread" /\ last.count > 0 /\ last.ret # kBadSize

\* The last call is a read given a live reader.
ReadOfReader == last.op = "fread" /\ FindReader(last.h) # 0

\* The last call is a seek given a live reader.
SeekOfReader == last.op = "fseek" /\ FindReader(last.h) # 0

\* The last call is a read that a failing download ended.
ReadFailedInTransport ==
    /\ last.op = "fread"
    /\ last.err # <<>>
    /\ last.err[1] = "Error while reading from file."

AtEndText == <<"Error trying to read more bytes while already out of bounds">>

(***************************************************************************)
(* C1.  A successful read of a reader over n >= 2 parts that all share a   *)
(* header of length L, at cursor o < total and for k >= 1 bytes, returns   *)
(* min(k, total - o) and exactly the bytes [o, o + min(k, total - o)) of   *)
(* raw(part 0) followed by every raw(part i), i > 0, without its first L   *)
(* bytes, also when the range spans part boundaries.                       *)
(***************************************************************************)
C1_SharedHeaderRead ==
    ReadSucceeded =>
        LET parts == PartsOfReader(LastReader)
            stream == ElidedStream(parts)
            n == Min(last.size * last.count, Len(stream) - last.before)
        IN  (Len(parts) >= 2 /\ AllShareHeader(parts)) =>
                /\ last.before < Len(stream)
                /\ last.ret = n
                /\ last.buffer = Slice(stream, last.before, n)

\* A read over three parts with a shared header: the tail of one part, the whole
\* data of the next and the first data byte of the third.
C1_Witness ==
    /\ ReadSucceeded
    /\ AllShareHeader(PartsOfReader(LastReader))
    /\ last.before >= 1
    /\ Len(last.reqs) = 3
    /\ \A i \in 1 .. 3 : last.reqs[i].length >= 1
    /\ last.reqs[2].start >= 1
    /\ last.buffer = Slice(ElidedStream(PartsOfReader(LastReader)), last.before, last.ret)

(***************************************************************************)
(* C2.  A successful read of a reader over n >= 2 parts of which one       *)
(* differs from the first within the first line returns the bytes of the   *)
(* plain concatenation of the raw parts, and no range it asks for starts   *)
(* at or extends past the raw size of its part.                            *)
(***************************************************************************)
C2_PlainConcatenationRead ==
    ReadSucceeded =>
        LET parts == PartsOfReader(LastReader)
            stream == PlainStream(parts)
            n == Min(last.size * last.count, Len(stream) - last.before)
        IN  (Len(parts) >= 2 /\ SomePartDiffers(parts)) =>
                /\ last.ret = n
                /\ last.buffer = Slice(stream, last.before, n)
                /\ \A i \in 1 .. Len(last.reqs) :
                      last.reqs[i].length > 0 =>
                          /\ last.reqs[i].start < Len(parts[last.reqs[i].idx + 1])
                          /\ last.reqs[i].start + last.reqs[i].length
                                <= Len(parts[last.reqs[i].idx + 1])

(***************************************************************************)
(* C3.  For a pattern matching n >= 2 parts, the size getFileSize returns  *)
(* and the total size of the reader open builds are the sum of the raw     *)
(* sizes less (n - 1) * L when every part begins with the first line, of   *)
(* length L, of the first part, and the sum of the raw sizes when some     *)
(* part differs from the first part at a byte within its first L bytes.    *)
(***************************************************************************)
ExpectedSize(parts, size) ==
    /\ AllShareHeader(parts) =>
          size = SumRaw(parts) - (Len(parts) - 1) * FirstLineLength(parts)
    /\ SomePartDiffers(parts) => size = SumRaw(parts)

C4_ExactObject ==
    /\ (last.op = "fopen" /\ last.ret # nullptr /\ ExactName(last.uri.object)) =>
          LET reader == active_reader_handles[FindReader(last.ret)]
              raw == Len(BlobBytes(blobs, last.uri.object))
          IN  /\ reader.filenames = <<last.uri.object>>
              /\ reader.commonHeaderLength = 0
              /\ reader.cumulativeSize = <<raw>>
              /\ reader.total_size = raw
    /\ (last.op = "getFileSize" /\ last.ret # kBadSize /\ ExactName(last.uri.object)) =>
          last.ret = Len(BlobBytes(blobs, last.uri.object))

\* The open of an exact object whose bytes start with a line: nothing is elided.
C4_Witness ==
    /\ last.op = "fopen"
    /\ last.ret # nullptr
    /\ ExactName(last.uri.object)
    /\ FirstNewline(BlobBytes(blobs, last.uri.object)) > 0
    /\ active_reader_handles[FindReader(last.ret)].total_size = MaxPartLen

(***************************************************************************)
(* C5.  When a range download fails during a read, on the first part or on *)
(* a later part of a read spanning parts, the read returns the failure     *)
(* sentinel and the cursor of the reader is the one at call entry.         *)
(***************************************************************************)
C5_FailedReadRestoresCursor ==
    ReadFailedInTransport =>
        /\ last.ret = kBadSize
        /\ CursorOf(last.h) = last.before

\* A read that failed on its second range, the bytes of the first already in the buffer.
C5_Witness ==
    /\ ReadFailedInTransport
    /\ Len(last.reqs) = 2
    /\ last.reqs[1].length >= 1
    /\ last.buffer[1] # Unset
    /\ CursorOf(last.h) = last.before

(***************************************************************************)
(* C6.  A read of size * count > 0 bytes made while the cursor is at or    *)
(* past the total size returns the failure sentinel, records an error,     *)
(* asks for no download and leaves the cursor unchanged.                   *)
(***************************************************************************)
C6_ReadAtEndFails ==
    (ReadOfReader /\ last.size * last.count > 0 /\ last.before >= LastReader.total_size) =>
        /\ last.ret = kBadSize
        /\ last.err # <<>>
        /\ lastError = last.err
        /\ last.reqs = <<>>
        /\ last.buffer = <<>>
        /\ CursorOf(last.h) = last.before

\* A read of one byte with the cursor exactly at the end of a file that holds bytes.
C6_Witness ==
    /\ ReadOfReader
    /\ last.size * last.count = 1
    /\ ~last.ptr_null
    /\ LastReader.total_size >= 1
    /\ last.before = LastReader.total_size
    /\ last.ret = kBadSize
    /\ lastError = AtEndText

(***************************************************************************)
(* C7.  A seek to an offset beyond the end of the data succeeds and sets   *)
(* the cursor there; every read made while the cursor is beyond the end    *)
(* fails with the failure sentinel when it asks for size * count > 0       *)
(* bytes and returns 0 when count is 0, asks for no download and leaves    *)
(* the cursor unchanged.                                                   *)
(***************************************************************************)
\* The offset a seek computes, as an integer.
SeekTarget(whence, cursor, total_size, offset) ==
    CASE whence = "beg" -> offset
      [] whence = "cur" -> cursor + offset
      [] whence = "end" -> IF total_size = 0 THEN offset ELSE total_size - 1 + offset
      [] OTHER -> -1

SeekBeyondEndSucceeds ==
    SeekOfReader =>
        LET target == SeekTarget(last.whence, last.before, LastReader.total_size, last.offset)
        IN  (target > LastReader.total_size /\ target <= max_val) =>
                /\ last.ret = 0
                /\ CursorOf(last.h) = target

C7_ReadBeyondEndFails ==
    /\ SeekBeyondEndSucceeds
    /\ (ReadOfReader /\ ~last.ptr_null /\ last.size > 0
        /\ last.before > LastReader.total_size) =>
          /\ last.ret = IF last.count = 0 THEN 0 ELSE kBadSize
          /\ (last.count > 0) => (last.err # <<>> /\ lastError = last.err)
          /\ last.reqs = <<>>
          /\ CursorOf(last.h) = last.before

\* A read of one byte with the cursor two past the end: the sentinel, not 0.
C7_Witness ==
    /\ ReadOfReader
    /\ ~last.ptr_null
    /\ last.size * last.count = 1
    /\ last.before = LastReader.total_size + 2
    /\ last.ret = kBadSize
    /\ lastError = AtEndText

\* C7 as the specification words it: after a seek beyond the end, a read returns
\* zero bytes.
C7_ReadBeyondEndReturnsZero ==
    /\ SeekBeyondEndSucceeds
    /\ (ReadOfReader /\ ~last.ptr_null /\ last.size > 0
        /\ last.before > LastReader.total_size) =>
          last.ret = 0

(***************************************************************************)
(* C8.  For a reader with cursor o < total and a request of max_len =      *)
(* size * count bytes with 1 <= max_len <= max_val - o, a read in which no *)
(* download fails returns min(max_len, total - o) and advances the cursor  *)
(* by that amount; a request with max_len > max_val - o is refused with    *)
(* the failure sentinel and the cursor unchanged.                          *)
(***************************************************************************)
\* A read with valid arguments, o < total, 1 <= size * count <= max_val, that no
\* failing download ended.
ReadWithinData ==
    /\ ReadOfReader
    /\ ~last.ptr_null
    /\ last.size >= 1
    /\ last.count >= 1
    /\ last.size * last.count <= max_val
    /\ last.before < LastReader.total_size
    /\ ~ReadFailedInTransport

ReadAdvancesByMin ==
    LET n == Min(last.size * last.count, LastReader.total_size - last.before)
    IN  /\ last.ret = n
        /\ CursorOf(last.h) = last.before + n
        /\ CursorOf(last.h) <= LastReader.total_size

C8_ReadLength ==
    ReadWithinData =>
        IF last.size * last.count <= max_val - last.before
        THEN ReadAdvancesByMin
        ELSE /\ last.ret = kBadSize
             /\ last.reqs = <<>>
             /\ CursorOf(last.h) = last.before

\* A read asking for more than is left, over two parts, that ends at the total size.
C8_Witness ==
    /\ ReadWithinData
    /\ last.size * last.count > LastReader.total_size - last.before
    /\ last.ret = LastReader.total_size - last.before
    /\ Len(last.reqs) >= 2
    /\ CursorOf(last.h) = LastReader.total_size

\* C8 as the specification words it: every max_len up to max_val is served.
C8_ReadLengthUpToMax == ReadWithinData => ReadAdvancesByMin

(***************************************************************************)
(* C9.  A seek from the current position by delta fails with the overflow  *)
(* error, the cursor unchanged, whenever cursor + delta exceeds max_val;   *)
(* otherwise the offset it computes is cursor + delta, not a wrapped       *)
(* value: it becomes the cursor when >= 0 and is refused when negative.    *)
(***************************************************************************)
C9_SeekCurrentOverflow ==
    (SeekOfReader /\ last.whence = "cur") =>
        IF last.before + last.offset > max_val
        THEN /\ last.ret = kBadSize
             /\ last.err = <<"Signed overflow prevented">>
             /\ CursorOf(last.h) = last.before
        ELSE IF last.before + last.offset >= 0
        THEN /\ last.ret = 0
             /\ CursorOf(last.h) = last.before + last.offset
        ELSE /\ last.ret = kBadSize
             /\ last.err = <<"Invalid seek offset">>
             /\ CursorOf(last.h) = last.before

\* The seek by max_val from offset 5.
C9_Witness ==
    /\ SeekOfReader
    /\ last.whence = "cur"
    /\ last.before = 5
    /\ last.offset = max_val
    /\ last.ret = kBadSize
    /\ lastError = <<"Signed overflow prevented">>
    /\ CursorOf(last.h) = 5

(***************************************************************************)
(* C10.  On a reader of total size 0, a seek from the end by 0 succeeds    *)
(* and sets the cursor to 0, a seek from the end by d < 0 fails and leaves *)
(* the cursor unchanged, and a seek from the end by min_val is refused as  *)
(* an overflow.                                                            *)
(***************************************************************************)
C10_SeekEndOfEmptyFile ==
    (SeekOfReader /\ last.whence = "end" /\ LastReader.total_size = 0) =>
        /\ (last.offset = 0) => (last.ret = 0 /\ CursorOf(last.h) = 0)
        /\ (last.offset < 0) =>
              (last.ret = kBadSize /\ last.err # <<>> /\ CursorOf(last.h) = last.before)
        /\ (last.offset = min_val) => last.err = <<"Signed overflow prevented">>

\* The seek from the end by min_val on an empty file whose cursor a seek had moved.
C10_Witness ==
    /\ SeekOfReader
    /\ last.whence = "end"
    /\ LastReader.total_size = 0
    /\ last.offset = min_val
    /\ last.before >= 1
    /\ last.ret = kBadSize
    /\ CursorOf(last.h) = last.before


(***************************************************************************)
(* C11.  On a reader of total size T > 0, a seek from the end by delta     *)
(* uses the anchor T - 1: it fails with the overflow error, the cursor     *)
(* unchanged, when delta > max_val - (T - 1); otherwise it sets the cursor  *)
(* to T - 1 + delta when that value is >= 0 (a seek from the end by 0      *)
(* lands on the last byte) and is refused, the cursor unchanged, when it   *)
(* is negative.                                                            *)
(***************************************************************************)
C11_SeekEndAnchor ==
    (SeekOfReader /\ last.whence = "end" /\ LastReader.total_size > 0) =>
        LET T == LastReader.total_size
        IN  IF last.offset > max_val - (T - 1)
            THEN /\ last.ret = kBadSize
                 /\ last.err = <<"Signed overflow prevented">>
                 /\ CursorOf(last.h) = last.before
            ELSE IF T - 1 + last.offset >= 0
            THEN /\ last.ret = 0
                 /\ CursorOf(last.h) = T - 1 + last.offset
            ELSE /\ last.ret = kBadSize
                 /\ last.err = <<"Invalid seek offset">>
                 /\ CursorOf(last.h) = last.before

\* The seek from the end by the largest delta accepted, on a reader of several bytes.
C11_Witness ==
    /\ SeekOfReader
    /\ last.whence = "end"
    /\ LastReader.total_size > 1
    /\ last.offset = max_val - (LastReader.total_size - 1)
    /\ last.ret = 0
    /\ CursorOf(last.h) = max_val

(***************************************************************************)
(* C12.  A seek fails when the handle is not a live reader, the origin is  *)
(* unknown, or the offset computed (delta from the start, cursor + delta,  *)
(* anchor + delta from the end) is negative or exceeds max_val; a seek     *)
(* that fails leaves the cursor of every reader as it was.  A seek that    *)
(* succeeds changes the cursor of its reader alone, to the computed        *)
(* offset.                                                                 *)
(***************************************************************************)
\* The offset a seek computes, in unbounded arithmetic.
ComputedOffset(reader, delta, whence) ==
    SeekTarget(whence, reader.offset, reader.total_size, delta)

SeekMustFail(h, delta, whence) ==
    \/ FindReader(h) = 0
    \/ whence \notin {"beg", "cur", "end"}
    \/ ComputedOffset(active_reader_handles[FindReader(h)], delta, whence) < 0
    \/ ComputedOffset(active_reader_handles[FindReader(h)], delta, whence) > max_val

SeekStep ==
    (last.op = "none" /\ last'.op = "fseek") =>
        IF SeekMustFail(last'.h, last'.offset, last'.whence)
        THEN /\ last'.ret = kBadSize
             /\ active_reader_handles' = active_reader_handles
        ELSE /\ last'.ret = 0
             /\ active_reader_handles' =
                    [active_reader_handles EXCEPT ![FindReader(last'.h)].offset =
                        ComputedOffset(active_reader_handles[FindReader(last'.h)],
                                       last'.offset, last'.whence)]

C12_FailedSeekKeepsCursor == [][SeekStep]_vars

\* A seek given the handle of a writer has failed, and the reader next to it keeps
\* the cursor an earlier seek gave it.
C12_Witness ==
    /\ last.op = "fseek"
    /\ FindWriter(last.h) # 0
    /\ last.ret = kBadSize
    /\ lastError = <<"Cannot identify stream as a reader stream.">>
    /\ \E i \in 1 .. Len(active_reader_handles) : active_reader_handles[i].offset = max_val

(***************************************************************************)
(* C13.  Once close(h) has returned success, and until an open returns a   *)
(* stream at the same address h, every call given h (a second close, a     *)
(* seek, a read, a write, a flush) returns its failure value with the      *)
(* error of a stream that cannot be identified, and changes neither the    *)
(* registries nor the container, whatever opens and closes of other        *)
(* handles came between.  The calls are made while the driver is           *)
(* connected or, close apart, after a disconnection, when they return the  *)
(* same failure value with the error of a driver not connected.            *)
(***************************************************************************)
HandleCalls == {"fclose", "fseek", "fread", "fwrite", "fflush"}

FailureValueOf(op) == IF op = "fclose" THEN kCloseEOF ELSE kBadSize

NotFoundTextOf(op) ==
    CASE op = "fclose" -> "Cannot identify stream."
      [] op \in {"fseek", "fread"} -> "Cannot identify stream as a reader stream."
      [] op \in {"fwrite", "fflush"} -> "Cannot identify stream as a writer stream."

\* The step is a call given handle h that finds no stream.
ReturnsNotFound ==
    /\ last'.ret = FailureValueOf(last'.op)
    /\ last'.err = IF bIsConnected = kFalse THEN <<"Error: driver not connected.">>
                   ELSE <<NotFoundTextOf(last'.op)>>
    /\ UNCHANGED <<active_reader_handles, active_writer_handles, blobs>>

\* The step is a call given a handle in one of the states named.
CallOnHandle(states) ==
    /\ last.op = "none"
    /\ last'.op \in HandleCalls
    /\ last'.h \in Pointers
    /\ stale[last'.h] \in states

C13_UseAfterClose == [][CallOnHandle({"closed"}) => ReturnsNotFound]_vars

\* A read given a closed handle has found no stream, while the other handle, closed
\* and opened again since, is live.
C13_Witness ==
    /\ last.op = "fread"
    /\ last.h \in Pointers
    /\ stale[last.h] = "closed"
    /\ last.ret = kBadSize
    /\ lastError = <<"Cannot identify stream as a reader stream.">>
    /\ \E p \in LiveStreams : stale[p] = "reissued"

\* C13 as the specification words it: a closed handle never resolves again.
C13_ClosedHandleNeverResolves ==
    [][CallOnHandle({"closed", "reissued"}) => ReturnsNotFound]_vars

(***************************************************************************)
(* C14.  A call given one handle (seek, read, write, flush or close,       *)
(* whatever the position of its stream in the registry) leaves every other *)
(* live handle in the same registry, resolving to a stream in the same     *)
(* state (same index, same cursor).  A close that succeeds removes the     *)
(* stream of its handle and leaves one entry fewer; no other call changes  *)
(* the number of entries.                                                  *)
(***************************************************************************)
\* The stream handle q resolves to in the registries given, and which registry.
StreamIn(q, readers, writers) ==
    IF FindHandle(q, readers) # 0
    THEN [kind |-> "reader", stream |-> readers[FindHandle(q, readers)]]
    ELSE IF FindHandle(q, writers) # 0
    THEN [kind |-> "writer", stream |-> writers[FindHandle(q, writers)]]
    ELSE [kind |-> "none"]

Entries(readers, writers) == Len(readers) + Len(writers)

OtherHandlesKept ==
    (last.op = "none" /\ last'.op \in HandleCalls) =>
        /\ \A q \in LiveStreams \ {last'.h} :
              StreamIn(q, active_reader_handles', active_writer_handles')
                  = StreamIn(q, active_reader_handles, active_writer_handles)
        /\ Entries(active_reader_handles', active_writer_handles')
              = Entries(active_reader_handles, active_writer_handles)
                  - (IF last'.op = "fclose" /\ last'.ret = kCloseSuccess THEN 1 ELSE 0)
        /\ (last'.op = "fclose" /\ last'.ret = kCloseSuccess) =>
              StreamIn(last'.h, active_reader_handles', active_writer_handles').kind = "none"

C14_OtherHandlesKept == [][OtherHandlesKept]_vars

\* The close of the first of two readers has moved the last one, whose cursor a seek
\* had set, to the first place.
C14_Witness ==
    /\ last.op = "fclose"
    /\ last.ret = kCloseSuccess
    /\ last.reader_stream_it = 1
    /\ Len(active_reader_handles) = 1
    /\ active_reader_handles[1].offset = max_val
    /\ active_reader_handles[1].id # last.h

(***************************************************************************)
(* C18.  A flush returns success (0) if and only if the driver is          *)
(* connected and the handle resolves to a live writer, and the failure     *)
(* value (-1) otherwise; in every case it leaves the registries, the       *)
(* cursors, the connection and the container as they were: it issues no    *)
(* remote operation.                                                       *)
(***************************************************************************)
FlushStep ==
    (last.op = "none" /\ last'.op = "fflush") =>
        /\ last'.ret = IF bIsConnected # kFalse /\ FindWriter(last'.h) # 0 THEN 0 ELSE -1
        /\ UNCHANGED <<bIsConnected, blobs, active_reader_handles, active_writer_handles>>

C18_FlushValidatesOnly == [][FlushStep]_vars

\* A flush of a writer that has written has succeeded, a reader open next to it.
C18_Witness ==
    /\ last.op = "fflush"
    /\ last.ret = 0
    /\ FindWriter(last.h) # 0
    /\ active_reader_handles # <<>>
    /\ BlobBytes(blobs, NewObject) = <<7>>

(***************************************************************************)
(* C16.  An open in append mode of a blob that exists, no request          *)
(* failing, returns a handle, registers a writer of that blob and leaves   *)
(* the container as it was; every write that succeeds through a handle     *)
(* leaves the blob of its writer holding the bytes it held followed by the *)
(* buffer, and the other blobs as they were, so that the blob always holds *)
(* its earlier content followed by the buffers written, in call order.     *)
(***************************************************************************)
\* The blob an append open names: the last one its pattern matches, or the name.
AppendTarget(object) ==
    LET sp == FindPatternSpecialChar(object)
        matches == FilterList(blobs, object, sp.pos)
    IN  IF ~sp.has THEN object
        ELSE IF matches.ok THEN matches.value[Len(matches.value)].name
        ELSE <<>>

AppendOpenStep ==
    (/\ last.op = "none"
     /\ last'.op = "fopen"
     /\ last'.mode = "a"
     /\ bIsConnected # kFalse
     /\ last'.failAt = 0
     /\ BlobIndex(blobs, AppendTarget(last'.uri.object)) # 0) =>
        /\ last'.ret # nullptr
        /\ FindHandle(last'.ret, active_writer_handles') # 0
        /\ active_writer_handles'[FindHandle(last'.ret, active_writer_handles')].filename
              = AppendTarget(last'.uri.object)
        /\ Len(active_writer_handles') = Len(active_writer_handles) + 1
        /\ blobs' = blobs

\* The container with buffer put at the end of the blob called name.
Extended(bs, name, buffer) ==
    [i \in 1 .. Len(bs) |->
        IF bs[i].name = name THEN [bs[i] EXCEPT !.bytes = bs[i].bytes \o buffer] ELSE bs[i]]

WriteExtendsStep ==
    (last.op = "none" /\ last'.op = "fwrite" /\ last'.ret > 0) =>
        /\ FindWriter(last'.h) # 0
        /\ last'.ret = Len(last'.buffer)
        /\ blobs' = Extended(blobs, active_writer_handles[FindWriter(last'.h)].filename,
                             last'.buffer)

C16_AppendKeepsContent == [][AppendOpenStep /\ WriteExtendsStep]_vars

\* Two writes through a handle opened in append mode have succeeded: the blob holds
\* the bytes it held at first and the two buffers, in call order.
C16_Witness ==
    /\ last.op = "fwrite"
    /\ last.ret = 2
    /\ BlobBytes(blobs, OldObject) = BlobBytes(RegistryStore, OldObject) \o <<7, 8, 9>>

(***************************************************************************)
(* C17.  A write of size * count > 0 bytes given a live writer, the driver *)
(* connected and the buffer not null, either returns size * count, the     *)
(* blob holding what it held followed by the whole buffer, or, when the    *)
(* append fails, returns the failure value, the container as it was: no    *)
(* strict prefix is reported or stored.                                    *)
(***************************************************************************)
WholeWriteStep ==
    (/\ last.op = "none"
     /\ last'.op = "fwrite"
     /\ bIsConnected # kFalse
     /\ ~last'.ptr_null
     /\ FindWriter(last'.h) # 0
     /\ last'.size * last'.count > 0) =>
        IF last'.failed
        THEN last'.ret = kBadSize /\ blobs' = blobs
        ELSE /\ last'.ret = last'.size * last'.count
             /\ blobs' = Extended(blobs, active_writer_handles[FindWriter(last'.h)].filename,
                                  last'.buffer)

C17_WriteIsWhole == [][WholeWriteStep]_vars

\* The append of two bytes has failed after one that succeeded: the blob holds the
\* first buffer alone.
C17_Witness ==
    /\ last.op = "fwrite"
    /\ last.failed
    /\ last.buffer = <<8, 9>>
    /\ FindWriter(last.h) # 0
    /\ last.ret = kBadSize
    /\ lastError = <<"Error while writing data.", "transport">>
    /\ BlobIndex(blobs, NewObject) # 0
    /\ BlobBytes(blobs, NewObject) = <<7>>

(***************************************************************************)
(* C19.  When a pattern matches n >= 2 parts and the first part holds no   *)
(* newline, no index is built: open returns the null handle and            *)
(* getFileSize the failure size, and, no request failing, the error is     *)
(* that of the header of the first file.                                   *)
(***************************************************************************)
HeaderText == "Error while reading header of first file."

\* The last call names, connected, a pattern of n >= 2 parts, the first without newline.
FirstPartWithoutNewline ==
    /\ last.op \in {"fopen", "getFileSize"}
    /\ last.op = "fopen" => last.mode = "r"
    /\ bIsConnected # kFalse
    /\ ~last.uri.null
    /\ ~ExactName(last.uri.object)
    /\ Len(MatchedParts(last.uri.object)) >= 2
    /\ FirstLineLength(MatchedParts(last.uri.object)) = 0

NoMatchText == "No blob matching pattern in container."

\* The last call names, connected, a pattern, and its listing did not fail.
PatternCall ==
    /\ last.op \in {"fopen", "getFileSize"}
    /\ last.op = "fopen" => last.mode = "r"
    /\ bIsConnected # kFalse
    /\ ~last.uri.null
    /\ ~ExactName(last.uri.object)
    /\ last.failAt # 1

C20_NoMatchAndOneMatch ==
    PatternCall =>
        LET parts == MatchedParts(last.uri.object)
        IN  /\ Len(parts) = 0 =>
                  /\ last.ret = IF last.op = "fopen" THEN nullptr ELSE kBadSize
                  /\ last.err = <<IF last.op = "fopen"
                                  THEN "Error while opening reader stream."
                                  ELSE "Error while getting file size.", NoMatchText>>
            /\ Len(parts) = 1 =>
                  /\ last.nreq = 1
                  /\ last.err = <<>>
                  /\ last.op = "getFileSize" => last.ret = Len(parts[1])
                  /\ last.op = "fopen" =>
                        LET reader == active_reader_handles[FindReader(last.ret)]
                        IN  /\ last.ret # nullptr
                            /\ PartsOfReader(reader) = parts
                            /\ reader.cumulativeSize = <<Len(parts[1])>>
                            /\ reader.total_size = Len(parts[1])
                            /\ reader.commonHeaderLength = 0

\* An open by a pattern one blob matches, a blob of the longest length beginning with
\* the longest first line: the reader has one part and nothing is elided.
C20_Witness ==
    /\ PatternCall
    /\ last.op = "fopen"
    /\ Len(MatchedParts(last.uri.object)) = 1
    /\ FirstNewline(MatchedParts(last.uri.object)[1]) = MaxHeaderLen
    /\ last.nreq = 1
    /\ last.ret # nullptr
    /\ active_reader_handles[FindReader(last.ret)].total_size = MaxPartLen

(***************************************************************************)
(* C15.  When no thread has pushed or erased a stream while another was    *)
(* between the start of its find and the use of the iterator found (the    *)
(* host serializes the opens and closes against every other call), a call  *)
(* of one thread on its handle, made while the other thread is in a call   *)
(* on another handle, resolves its own stream and ends as it would alone:  *)
(* a seek returns 0 and sets the cursor of that stream, a close returns    *)
(* success and removes it.                                                 *)
(***************************************************************************)
NoRace == \A t \in Threads : ~threads[t].raced

EndsAsAlone(t) ==
    threads[t].pc = "done" =>
        /\ threads[t].resolved = threads[t].h
        /\ threads[t].ret = 0
        /\ threads[t].op = "fseek" => threads[t].cursor = threads[t].arg
        /\ threads[t].op = "fclose" => threads[t].cursor = -1

C15_SerializedCallsResolve == NoRace => \A t \in Threads : EndsAsAlone(t)

\* The seek of one thread has ended on its own stream while the other thread, in a
\* close, has found its stream and not yet erased it.
C15_Witness ==
    /\ NoRace
    /\ threads["t1"].pc = "done"
    /\ threads["t1"].op = "fseek"
    /\ threads["t1"].resolved = threads["t1"].h
    /\ threads["t1"].cursor = 1
    /\ threads["t2"].pc = "found"
    /\ threads["t2"].op = "fclose"
    /\ threads["t2"].h # threads["t1"].h

\* C15 as the specification words it: no interleaving changes the outcome.
C15_ConcurrentCallsResolve == \A t \in Threads : EndsAsAlone(t)

(***************************************************************************)
(* C21.  A call that returns its failure value (the null handle of open,   *)
(* -1 of the size query, seek, read, write and flush, kCloseEOF of close,  *)
(* kFailure of connect, remove, the directory calls and the copies) has    *)
(* stored an error text: the last-error query made next gives a pointer    *)
(* that is not null, to the text that call logged.                         *)
(***************************************************************************)
\* The calls that have a failure value, and the value.
FailingOps ==
    { "connect", "getFileSize", "fopen", "fclose", "fseek", "fread", "fwrite", "fflush",
      "remove", "rmdir", "mkdir", "diskFreeSpace", "copyToLocal", "copyFromLocal" }

FailureSentinel(op) ==
    CASE op = "fopen" -> nullptr
      [] op = "fclose" -> kCloseEOF
      [] op \in {"getFileSize", "fseek", "fread", "fwrite", "fflush"} -> kBadSize
      [] OTHER -> kFailure

\* The last call has returned its failure value to the host.
CallFailed ==
    /\ last.op \in FailingOps
    /\ ~Aborted
    /\ ~Hung
    /\ last.ret = FailureSentinel(last.op)

C21_FailureRecordsText ==
    CallFailed =>
        /\ ~GetlasterrorCall.null
        /\ GetlasterrorCall.text = last.err

(***************************************************************************)
(* C22.  While the driver is not connected, open, seek, read, write,       *)
(* flush, the size query, the existence queries, remove and the two copies *)
(* return their failure value with the error of a driver not connected,    *)
(* and change neither the registries (hence no cursor) nor the container.  *)
(* Close is not among them: its first statement is an assertion that the   *)
(* driver is connected, so in a build with assertions it ends the process  *)
(* and in a build without it returns kCloseEOF with the error of a null    *)
(* pointer or of a stream that cannot be identified; it changes nothing.   *)
(***************************************************************************)
\* The calls of the file-like surface that test the connection first.
GuardedOps ==
    { "fopen", "fseek", "fread", "fwrite", "fflush", "getFileSize", "exist", "fileExists",
      "dirExists", "remove", "copyToLocal", "copyFromLocal" }

NotConnectedText == <<"Error: driver not connected.">>

NotConnectedValue(op) ==
    IF op \in {"exist", "fileExists", "dirExists"} THEN kFalse ELSE FailureSentinel(op)

\* The step is a call of one of the operations made while the driver is not connected.
UnconnectedCall(ops) ==
    /\ last.op = "none"
    /\ bIsConnected = kFalse
    /\ last'.op \in ops

\* The step returns the failure value as a NotConnected error and changes nothing.
RejectedAsNotConnected ==
    /\ ~Aborted'
    /\ last'.ret = NotConnectedValue(last'.op)
    /\ last'.err = NotConnectedText
    /\ lastError' = NotConnectedText
    /\ UNCHANGED <<bIsConnected, active_reader_handles, active_writer_handles, blobs>>

\* The step is a close that ends the process or finds no stream.
CloseAbortsOrFindsNothing ==
    /\ UNCHANGED <<bIsConnected, active_reader_handles, active_writer_handles, blobs>>
    /\ \/ Aborted' /\ UNCHANGED lastError
       \/ /\ ~Aborted'
          /\ last'.ret = kCloseEOF
          /\ last'.err = IF last'.h = nullptr
                         THEN <<"Error passing null pointer to driver_fclose">>
                         ELSE <<"Cannot identify stream.">>
          /\ lastError' = last'.err

C22_UnconnectedCalls ==
    [][/\ UnconnectedCall(GuardedOps) => RejectedAsNotConnected
       /\ UnconnectedCall({"fclose"}) => CloseAbortsOrFindsNothing]_vars

\* After a disconnection, the removal of a blob that a writer had created is refused:
\* the blob is still there.
C22_Witness ==
    /\ bIsConnected = kFalse
    /\ last.op = "remove"
    /\ last.uri = Uri(NewObject)
    /\ last.ret = kFailure
    /\ lastError = NotConnectedText
    /\ BlobIndex(blobs, NewObject) # 0

\* C22 as the specification words it: close too is refused as not connected.
C22_EveryCallRefused ==
    [][UnconnectedCall(GuardedOps \cup {"fclose"}) => RejectedAsNotConnected]_vars

(***************************************************************************)
(* C23.  The connection flag is false at first; it changes only when a     *)
(* connect returns success, which makes it true, and when a disconnect     *)
(* returns, which makes it false; a disconnect returns success in every    *)
(* state; the connection query returns the flag.  This holds along every   *)
(* sequence of calls.                                                      *)
(***************************************************************************)
ConnectionStep ==
    /\ (last'.op = "connect" /\ last'.ret = kSuccess) => bIsConnected' = kTrue
    /\ last'.op = "disconnect" => (last'.ret = kSuccess /\ bIsConnected' = kFalse)
    /\ last'.op = "isConnected" => (last'.ret = bIsConnected /\ UNCHANGED bIsConnected)
    /\ bIsConnected' # bIsConnected =>
          \/ last'.op = "connect" /\ last'.ret = kSuccess
          \/ last'.op = "disconnect"

C23_ConnectionFlag == (bIsConnected = kFalse) /\ [][last.op = "none" => ConnectionStep]_vars

\* A connect succeeds anew: the blob of an earlier connection is there, and a call
\* made in between was refused as not connected.
C23_Witness ==
    /\ last.op = "connect"
    /\ last.ret = kSuccess
    /\ bIsConnected = kTrue
    /\ lastError = NotConnectedText
    /\ BlobIndex(blobs, NewObject) # 0

(***************************************************************************)
(* C24.  An open that fails (the driver is not connected, the locator is   *)
(* null or is not parsed, the mode is unknown, the listing, a header read  *)
(* or the creation of the blob fails, no blob has the name or matches the  *)
(* pattern, the first part holds no newline) returns the null handle and   *)
(* leaves both registries as they were: every handle resolves after the    *)
(* call to what it resolved to before it.                                  *)
(***************************************************************************)
\* The open of the step has to fail, from its arguments and the container alone.
OpenMustFail ==
    LET uri == last'.uri
        mode == last'.mode
        parts == MatchedParts(uri.object)
    IN  \/ bIsConnected = kFalse
        \/ uri.null
        \/ uri.scheme \notin {"http", "https"}
        \/ mode \notin {"r", "w", "a"}
        \/ last'.failAt # 0
        \/ mode = "r" /\ ExactName(uri.object) /\ BlobIndex(blobs, uri.object) = 0
        \/ mode \in {"r", "a"} /\ ~ExactName(uri.object) /\ parts = <<>>
        \/ mode = "r" /\ ~ExactName(uri.object) /\ Len(parts) >= 2
              /\ FirstNewline(parts[1]) = 0

OpenStep == last.op = "none" /\ last'.op = "fopen"

RegistriesKept ==
    /\ UNCHANGED <<active_reader_handles, active_writer_handles>>
    /\ \A h \in Pointers : FindReader(h)' = FindReader(h) /\ FindWriter(h)' = FindWriter(h)

C24_FailedOpenRegistersNothing ==
    [][OpenStep => IF OpenMustFail THEN last'.ret = nullptr /\ RegistriesKept
                   ELSE last'.ret \in Pointers \ LiveStreams]_vars

\* An open for reading has failed at the header read of its second part while
\* another stream is open.
C24_Witness ==
    /\ last.op = "fopen"
    /\ last.mode = "r"
    /\ last.failAt = 3
    /\ last.ret = nullptr
    /\ LiveStreams # {}

(***************************************************************************)
(* C25.  In the reader a successful open builds, the cumulative sizes are  *)
(* as many as the parts, never decrease from one part to the next, start   *)
(* with the raw size of the first part and end with the total size of the  *)
(* reader, whatever the raw sizes of the parts, those of parts shorter     *)
(* than the header and of empty parts included.                            *)
(***************************************************************************)
\* The last call is an open that returned a reader.
OpenedReader == last.op = "fopen" /\ last.mode = "r" /\ last.ret # nullptr

IndexShape(reader) ==
    /\ Len(reader.cumulativeSize) = Len(reader.filenames)
    /\ reader.cumulativeSize[1] = Len(BlobBytes(blobs, reader.filenames[1]))
    /\ reader.cumulativeSize[Len(reader.cumulativeSize)] = reader.total_size

NonDecreasing(sizes) == \A i \in 1 .. (Len(sizes) - 1) : sizes[i] <= sizes[i + 1]

C25_CumulativeSizes ==
    OpenedReader =>
        LET reader == active_reader_handles[FindReader(last.ret)]
        IN  IndexShape(reader) /\ NonDecreasing(reader.cumulativeSize)

(***************************************************************************)
(* C26.  The sizes of a reader or of the size query are reduced by the     *)
(* header length only if every part holds at least L bytes and its first L *)
(* bytes are those of the first part's header, of length L: a part shorter *)
(* than L is never taken to share the header.                              *)
(***************************************************************************)
C26_ElisionOnlyWhenShared ==
    /\ OpenedReader =>
          LET reader == active_reader_handles[FindReader(last.ret)]
              parts == PartsOfReader(reader)
          IN  (Len(parts) >= 2 /\ reader.total_size # SumRaw(parts)) => AllShareHeader(parts)
    /\ (last.op = "getFileSize" /\ last.ret # kBadSize /\ ~ExactName(last.uri.object)) =>
          LET parts == MatchedParts(last.uri.object)
          IN  (Len(parts) >= 2 /\ last.ret # SumRaw(parts)) => AllShareHeader(parts)

(***************************************************************************)
(* C27.  The cursor of every open reader is zero or more after any         *)
(* sequence of opens, seeks and reads, and it is zero in the state that    *)
(* follows the open that made the reader.                                  *)
(***************************************************************************)
C27_CursorNeverNegative ==
    /\ \A i \in DOMAIN active_reader_handles : active_reader_handles[i].offset >= 0
    /\ OpenedReader => CursorOf(last.ret) = 0

\* A seek backwards from the cursor that earlier calls had moved was refused: it
\* would have put the cursor before the first byte.
C27_Witness ==
    /\ last.op = "fseek" /\ last.ret = kBadSize
    /\ last.whence = "cur" /\ last.offset < 0
    /\ CursorOf(last.h) > 0 /\ CursorOf(last.h) + last.offset < 0

(***************************************************************************)
(* C28.  A read or a write whose unit size is 0 returns the failure value, *)
(* whatever its handle, and changes no stream and no blob.  With a unit    *)
(* size above 0, a count of 0, a buffer and the handle of an open stream   *)
(* of its kind, the call returns 0, sends no request, records no error     *)
(* and leaves every cursor and every blob as they were, also when the      *)
(* cursor of the reader is at the end of the data or past it.              *)
(***************************************************************************)
TransferStep == last.op = "none" /\ last'.op \in {"fread", "fwrite"}

\* The handle of the call that begins is that of an open stream of the kind of the call.
MatchingStream ==
    IF last'.op = "fread" THEN FindReader(last'.h) # 0 ELSE FindWriter(last'.h) # 0

StreamsAndBlobsKept ==
    UNCHANGED <<active_reader_handles, active_writer_handles, blobs>>

C28_ZeroSizeAndZeroCount ==
    [][TransferStep =>
          /\ last'.size = 0 => (last'.ret = kBadSize /\ StreamsAndBlobsKept)
          /\ (last'.size > 0 /\ last'.count = 0 /\ ~last'.ptr_null /\ MatchingStream) =>
                /\ last'.ret = 0
                /\ StreamsAndBlobsKept /\ UNCHANGED lastError
                /\ last'.op = "fread" => last'.reqs = <<>>]_vars

\* A read of no item returned 0 on a reader whose cursor is past the end of its data.
C28_Witness ==
    /\ last.op = "fread" /\ last.size > 0 /\ last.count = 0 /\ last.ret = 0
    /\ FindReader(last.h) # 0
    /\ CursorOf(last.h) > active_reader_handles[FindReader(last.h)].total_size

(***************************************************************************)
(* C29.  A pattern is used as the name of one object exactly when each of  *)
(* its characters among * ? ! [ ^ comes right after a backslash; any other *)
(* pattern is listed, and the prefix asked of the listing is the text of   *)
(* the pattern before the first of these characters that is at position 0  *)
(* or does not follow a backslash.                                         *)
(***************************************************************************)
\* Position k (from 0) of the pattern holds a metacharacter that no backslash precedes.
Unescaped(pattern, k) ==
    /\ pattern[k + 1] \in {"*", "?", "!", "[", "^"}
    /\ (k = 0 \/ pattern[k] # "\\")

FirstUnescaped(pattern) ==
    CHOOSE k \in 0 .. (Len(pattern) - 1) :
        Unescaped(pattern, k) /\ \A m \in 0 .. (k - 1) : ~Unescaped(pattern, m)

HasUnescaped(pattern) == \E k \in 0 .. (Len(pattern) - 1) : Unescaped(pattern, k)

C29_ExactNameOrPrefix ==
    /\ last.op = "GetBlobClient" => (~HasUnescaped(last.pattern) /\ last.name = last.pattern)
    /\ last.op = "ListBlobs" =>
          /\ HasUnescaped(last.pattern)
          /\ last.Prefix = SubSeq(last.pattern, 1, FirstUnescaped(last.pattern))

\* A pattern with an escaped metacharacter before the first un-escaped one was listed.
C29_Witness ==
    /\ last.op = "ListBlobs"
    /\ \E k \in 1 .. (Len(last.Prefix) - 1) :
          last.Prefix[k] = "\\" /\ last.Prefix[k + 1] \in special_chars

(***************************************************************************)
(* C30.  While the driver is connected, the existence query of a locator   *)
(* that ends with '/' answers true; of any other locator of a blob it      *)
(* answers true exactly when the object named exists, for a name without   *)
(* un-escaped metacharacter, or when an object that is not deleted matches *)
(* the pattern; of a locator that is not parsed or is not of a blob it     *)
(* answers false, and in no case does the call abort.                      *)
(***************************************************************************)
ObjectExists(object) ==
    \E i \in 1 .. Len(blobs) :
        /\ ~blobs[i].deleted
        /\ IF HasUnescaped(object) THEN GlobMatch(blobs[i].name, object)
           ELSE blobs[i].name = object

ExistAnswer(uri, failed, ret) ==
    IF ~EmptyText(uri) /\ Back(uri) = "/" THEN ret = kTrue
    ELSE IF uri.scheme \in {"http", "https"} /\ uri.service = "BLOB"
    THEN failed \/ (ret = kTrue <=> ObjectExists(uri.object))
    ELSE ret = kFalse

C30_ExistenceQuery ==
    (last.op = "exist" /\ bIsConnected # kFalse /\ ~last.uri.null) =>
        (~last.aborted /\ ExistAnswer(last.uri, last.failed, last.ret))

(***************************************************************************)
(* C31.  In every read that driver_fread passes on (cursor below the total *)
(* size, length cut to what is left), the part found for the cursor is one *)
(* of the n parts, every part the loop goes on to is one of the n parts,   *)
(* every length asked of a part is zero or more, and the lengths add up to *)
(* the length passed on, also when parts have a logical size of zero.      *)
(***************************************************************************)
\* The last call is a read that reached ReadBytesInFile.
ReadPassedOn == last.op = "fread" /\ last.reqs # <<>>

RECURSIVE SumLengths(_)
SumLengths(ranges) ==
    IF ranges = <<>> THEN 0 ELSE Head(ranges).length + SumLengths(Tail(ranges))

C31_SpanningRead ==
    ReadPassedOn =>
        LET reader == active_reader_handles[FindReader(last.h)]
            want == IF last.before + last.size * last.count > reader.total_size
                    THEN reader.total_size - last.before
                    ELSE last.size * last.count
        IN  /\ \A k \in 1 .. Len(last.reqs) :
                  /\ last.reqs[k].idx \in 0 .. (Len(reader.filenames) - 1)
                  /\ last.reqs[k].length >= 0
            /\ last.ret # kBadSize => SumLengths(last.reqs) = want

(***************************************************************************)
(* C32.  When an index is built over n >= 2 parts, the parts after the     *)
(* first are read and compared with the header in order, up to the first   *)
(* that does not begin with it and no further: the comparison reads are    *)
(* min(n - 1, index of the first such part) in number; and when there is   *)
(* such a part the sizes are the sums of the raw sizes of all the parts.   *)
(* Stated for containers where no part after the second is shorter than    *)
(* the header.                                                             *)
(***************************************************************************)
BeginsWith(part, header) ==
    Len(part) >= Len(header) /\ SubSeq(part, 1, Len(header)) = header

\* The index (from 0) of the first part after part 0 that does not begin with the
\* header, n when every part does.
FirstMismatch(parts, header) ==
    IF \E i \in 2 .. Len(parts) : ~BeginsWith(parts[i], header)
    THEN (CHOOSE i \in 2 .. Len(parts) :
             /\ ~BeginsWith(parts[i], header)
             /\ \A k \in 2 .. (i - 1) : BeginsWith(parts[k], header)) - 1
    ELSE Len(parts)

\* The last call built an index over several parts: a size query or an open for
\* reading of a pattern, with every request answered.
IndexBuilt ==
    /\ last.op \in {"getFileSize", "fopen"}
    /\ last.op = "fopen" => last.mode = "r"
    /\ last.ret # (IF last.op = "fopen" THEN nullptr ELSE kBadSize)
    /\ ~last.uri.null /\ ~ExactName(last.uri.object)
    /\ Len(MatchedParts(last.uri.object)) >= 2

\* The header reads of the call: its requests less the listing and FindHeader's.
HeaderReads(parts) == last.nreq - 1 - FindHeader(parts[1]).nreq

NoShortLaterPart(parts, header) ==
    \A i \in 3 .. Len(parts) : Len(parts[i]) >= Len(header)

SizeBuilt ==
    IF last.op = "getFileSize" THEN last.ret
    ELSE active_reader_handles[FindReader(last.ret)].total_size

SizeAsked == last.op = "getFileSize" /\ last.failAt = 0

\* What driver_fopen gives for the locator of the last call, in reading mode, at a
\* free address, with every request answered.
OpenOfSame == FopenCall(last.uri, "r", 1, 0, <<>>)

NotOtherService ==
    last.uri.null \/ ~ParseAzureUri(last.uri).ok \/ last.uri.service = "BLOB"

\* No part the locator matches, after the second, is shorter than the header.
NoShortLaterMatch ==
    LET parts == MatchedParts(last.uri.object)
    IN  Len(parts) >= 3 => NoShortLaterPart(parts, FindHeader(parts[1]).header)

MatchedNames(object) ==
    LET m == SelectSeq(blobs, LAMBDA b : ~b.deleted /\ GlobMatch(b.name, object))
    IN  [i \in 1 .. Len(m) |-> m[i].name]

\* The call that begins is an open in append mode of a pattern, made while connected.
AppendPatternStep ==
    /\ last.op = "none" /\ last'.op = "fopen" /\ last'.mode = "a"
    /\ bIsConnected # kFalse
    /\ ~last'.uri.null /\ ParseAzureUri(last'.uri).ok
    /\ HasUnescaped(last'.uri.object)

BoundToLastMatch ==
    LET names == MatchedNames(last'.uri.object)
    IN  IF names = <<>>
        THEN last'.ret = nullptr
             /\ UNCHANGED <<blobs, active_reader_handles, active_writer_handles>>
        ELSE last'.failAt = 0 =>
                /\ last'.ret # nullptr
                /\ Len(active_writer_handles') = Len(active_writer_handles) + 1
                /\ active_writer_handles'[Len(active_writer_handles')].id = last'.ret
                /\ active_writer_handles'[Len(active_writer_handles')].filename
                      = names[Len(names)]
                /\ UNCHANGED blobs

\* A write that returned a count changed the blob of its writer and no other.
OnlyBoundBlobExtended ==
    (last.op = "none" /\ last'.op = "fwrite" /\ last'.ret > 0) =>
        LET bound == active_writer_handles[FindWriter(last'.h)].filename
        IN  /\ Len(blobs') = Len(blobs)
            /\ \A i \in 1 .. Len(blobs) :
                  /\ blobs'[i].name = blobs[i].name
                  /\ blobs'[i].bytes =
                        IF blobs[i].name = bound
                        THEN blobs[i].bytes \o SubSeq(last'.buffer, 1, last'.ret)
                        ELSE blobs[i].bytes

C34_AppendPatternBindsLast ==
    [][(AppendPatternStep => BoundToLastMatch) /\ OnlyBoundBlobExtended]_vars

\* A writer opened by a pattern that two blobs match has written to the second.
C34_Witness ==
    /\ last.op = "fwrite" /\ last.ret > 0
    /\ FindWriter(last.h) # 0
    /\ active_writer_handles[FindWriter(last.h)].filename = <<"a", "1">>
    /\ BlobBytes(blobs, <<"a", "1">>) = BlobBytes(RegistryStore, <<"a", "1">>) \o last.buffer
    /\ BlobBytes(blobs, <<"a", "0">>) = BlobBytes(RegistryStore, <<"a", "0">>)

(***************************************************************************)
(* C35.  A disconnect leaves both registries empty.  While they are empty, *)
(* connected again or not, a close, seek, read, write or flush fails,      *)
(* whatever handle it is given, those issued before the disconnect         *)
(* included, and leaves them empty: only an open that succeeds puts a      *)
(* stream in a registry.                                                   *)
(***************************************************************************)
RegistriesEmpty == active_reader_handles = <<>> /\ active_writer_handles = <<>>

StreamCalls == {"fclose", "fseek", "fread", "fwrite", "fflush"}

StreamCallFailed(call) ==
    CASE call.op = "fclose" -> call.aborted \/ call.ret = kCloseEOF
      [] call.op = "fflush" -> call.ret = -1
      [] OTHER -> call.ret = kBadSize

DisconnectStep ==
    /\ last'.op = "disconnect" => (last'.ret = kSuccess /\ RegistriesEmpty')
    /\ (RegistriesEmpty /\ last'.op \in StreamCalls) =>
          (StreamCallFailed(last') /\ RegistriesEmpty' /\ UNCHANGED blobs)
    /\ (RegistriesEmpty /\ ~RegistriesEmpty') => (last'.op = "fopen" /\ last'.ret # nullptr)

C35_DisconnectEmptiesRegistries == [][last.op = "none" => DisconnectStep]_vars

\* A disconnect has destroyed two streams.
C35_Witness ==
    last.op = "disconnect" /\ last.cleared = 2 /\ RegistriesEmpty

(***************************************************************************)
(* C36.  Readers and writers are kept in two registries and no address is  *)
(* in both.  A seek or a read given the address of a live writer, and a    *)
(* write or a flush given the address of a live reader, returns its        *)
(* failure value and changes neither the registries nor the container; a   *)
(* close made while the driver is connected succeeds for a live stream of  *)
(* either kind and removes it.                                             *)
(***************************************************************************)
ReaderAddresses == { active_reader_handles[i].id : i \in 1 .. Len(active_reader_handles) }

WriterAddresses == { active_writer_handles[i].id : i \in 1 .. Len(active_writer_handles) }

WrongKindStep ==
    /\ (last'.op \in {"fseek", "fread"} /\ last'.h \in WriterAddresses) =>
          (last'.ret = kBadSize /\ UNCHANGED <<active_reader_handles, active_writer_handles, blobs>>)
    /\ (last'.op \in {"fwrite", "fflush"} /\ last'.h \in ReaderAddresses) =>
          (last'.ret = kBadSize /\ UNCHANGED <<active_reader_handles, active_writer_handles, blobs>>)
    /\ (last'.op = "fclose" /\ ~last'.aborted /\ last'.h \in ReaderAddresses \cup WriterAddresses) =>
          /\ last'.ret = kCloseSuccess
          /\ last'.h \notin ReaderAddresses' \cup WriterAddresses'
          /\ Len(active_reader_handles') + Len(active_writer_handles') =
                Len(active_reader_handles) + Len(active_writer_handles) - 1

C36_SeparateRegistries ==
    [][/\ ReaderAddresses' \cap WriterAddresses' = {}
       /\ last.op = "none" => WrongKindStep]_vars

\* A writer has been closed while a reader is live.
C36_Witness ==
    /\ last.op = "fclose"
    /\ last.writer_stream_it # 0
    /\ last.ret = kCloseSuccess
    /\ ReaderAddresses # {}

(***************************************************************************)
(* C37.  A read or a write of size > 0 items of count > 0 bytes that       *)
(* reaches the test of the product is refused as an overflow exactly when  *)
(* size * count, the product of the integers, is greater than the largest  *)
(* offset; a request that is not refused moves size * count bytes: the     *)
(* write returns the product and appends as many bytes; the read, when the *)
(* cursor is inside the file and the cursor plus the product is an offset, *)
(* returns the product or what is left of the file, whichever is less.     *)
(***************************************************************************)
OverflowTextOf(op) ==
    IF op = "fread" THEN <<"product size * count is too large, would overflow">>
    ELSE <<"Error on write: product size * count is too large, would overflow">>

\* The call given reaches the test of the product.
ReachesProductTest(call) ==
    /\ call.op \in {"fread", "fwrite"}
    /\ bIsConnected # kFalse
    /\ ~call.ptr_null
    /\ call.size > 0
    /\ call.count > 0
    /\ IF call.op = "fread" THEN FindReader(call.h) # 0 ELSE FindWriter(call.h) # 0

RefusedAsOverflow(call) == call.ret = kBadSize /\ call.err = OverflowTextOf(call.op)

\* The step moves the product: the bytes of the call made, which went through.
MovesProduct ==
    LET product == last'.size * last'.count
    IN  IF last'.op = "fwrite"
        THEN LET name == active_writer_handles[FindWriter(last'.h)].filename
             IN  /\ last'.ret = product
                 /\ Len(BlobBytes(blobs', name)) = Len(BlobBytes(blobs, name)) + product
        ELSE LET reader_ptr_it == FindReader(last'.h)
                 reader == active_reader_handles[reader_ptr_it]
             IN  (reader.offset <= max_val - product /\ reader.offset < reader.total_size) =>
                    /\ last'.ret = Min(product, reader.total_size - reader.offset)
                    /\ active_reader_handles'[reader_ptr_it].offset = reader.offset + last'.ret

ProductStep ==
    ReachesProductTest(last') =>
        /\ RefusedAsOverflow(last') <=> (last'.size * last'.count > max_val)
        /\ ~RefusedAsOverflow(last') => MovesProduct

C37_ProductOverflow == [][last.op = "none" => ProductStep]_vars

\* A write of the largest product a request may have, of more than one item of
\* more than one byte, has gone through.
C37_Witness ==
    /\ last.op = "fwrite"
    /\ last.size * last.count = max_val
    /\ last.size > 1
    /\ last.count > 1
    /\ last.ret = max_val

(***************************************************************************)
(* C38.  A copy to a local file of an object of n >= 2 parts, in which no  *)
(* request fails and the local file takes every write, ends, returns       *)
(* success and leaves in the local file the logical stream: the first part *)
(* whole, then every later part without its first line when every part     *)
(* begins with the first line of the first, and whole when one does not.   *)
(***************************************************************************)
\* Every part after the first begins with the first line of the first.
HeaderShared(parts) ==
    \A i \in 2 .. Len(parts) : BeginsWith(parts[i], FindHeader(parts[1]).header)

LogicalStream(parts) ==
    IF HeaderShared(parts) THEN ElidedStream(parts) ELSE PlainStream(parts)

\* The last call is a copy of n >= 2 parts in which nothing failed.
CopiedUnfailed ==
    /\ last.op = "copyToLocal"
    /\ bIsConnected # kFalse
    /\ ~last.uri.null /\ ~last.dest_null
    /\ last.uri.service = "BLOB"
    /\ last.local = "ok"
    /\ last.failAt = 0
    /\ Len(MatchedParts(last.uri.object)) >= 2
    /\ FindHeader(MatchedParts(last.uri.object)[1]).found

C38_CopyToLocalStream ==
    CopiedUnfailed =>
        /\ ~last.hung
        /\ last.ret = kSuccess
        /\ last.file = LogicalStream(MatchedParts(last.uri.object))

====
